---- MODULE Spec2Model ----
(***************************************************************************)
(* Model of the infoleg dataset pipeline (src/dataset/src/dataset):        *)
(*   - InfolegClient.search_boletines / scrape_norma_by_id / scrape_by_date *)
(*     (infoleg_scraper.py), modelled step by step under SpecScrape;       *)
(*   - InfolegClient.convert_date_format, under SpecDate;                  *)
(*   - the Dagster assets of defs/assets.py and the job of definitions.py, *)
(*     modelled stage by stage under Spec (runs one after the other),      *)
(*     SpecRun (one run), SpecMerge (the append and archive stages run     *)
(*     again), SpecStaging (runs in progress together) and SpecDedupe;     *)
(*   - daily_partitions and daily_schedule, under SpecCalendar.            *)
(***************************************************************************)
EXTENDS Integers, Sequences, FiniteSets, TLC

VARIABLES
    \* ---- one execution of InfolegClient.scrape_by_date ----
    resp,               \* the search endpoint's answer for the date
    batch_size,         \* InfolegClient.batch_size (W)
    daily_scrape_count, \* InfolegClient.daily_scrape_count (cap)
    pc,                 \* position inside scrape_by_date
    all_norma_ids,      \* identifiers to fetch, in search order
    i,                  \* loop index of enumerate(all_norma_ids), 0-based
    tasks,              \* identifiers of the group being built / awaited
    inflight,           \* positions of tasks whose fetch is issued and not complete
    results,            \* what each awaited scrape_norma_by_id returned
    csvfile,            \* data rows of the output file (header not counted)
    total_scraped,      \* rows written so far / the returned count
    groups,             \* history: the groups handed to asyncio.gather, in order
    sleeps,             \* history: number of asyncio.sleep calls
    arrival,            \* positions of tasks in the order their fetches completed
    succeeded,          \* history: id -> "unfetched" | "yes" | "no"
    overtaken,          \* history: some fetch completed before an earlier one of its group
    attempt,            \* 1 for the first execution for the date, 2 for a re-run
    answers,            \* history: id -> what the site answered when the page was fetched
    firstRun,           \* history: how the first execution ended and the file it left
    \* ---- the Dagster assets and what they read and write ----
    batchFile,          \* partition -> the local file /tmp/normas_<date>.csv
    gcsDaily,           \* partition -> the blob daily_scrapes/normas_<date>.csv
    masterFile,         \* the local master CSV (MASTER_FILE_PATH)
    gcsMaster,          \* the archived master blob (MASTER_FILE)
    bqMaster,           \* warehouse table master, a bag of rows
    staging,            \* warehouse table staging, a bag of rows
    embeddings,         \* warehouse table master_embeddings, a bag of rows
    run,                \* run id -> the Dagster run and the state of its steps
    lastLoad,           \* history: the latest successful load of the master table
    consumed,           \* history: partition -> how many times its batch was appended / loaded
    \* ---- one call of InfolegClient.convert_date_format ----
    date_str,           \* the argument
    date_out,           \* the returned value, once the call has returned
    \* ---- the calendar of daily_partitions and daily_schedule ----
    start_dow,          \* cron day of week (0 = Sunday) of the configured start date
    day,                \* days elapsed since the start date: the current local date
    phase,              \* "early": before 07:10 of the current date; "late": after
    ticks,              \* history: the dates on which daily_schedule has fired
    \* ---- one parse of a norma page by InfolegClient.scrape_norma_by_id ----
    page,               \* the elements of the page the date and summary fields are read from
    data,               \* the fields of the returned record, once the parse has returned
    \* ---- the /chat handler of the website (src/website/src/routes.py) ----
    debug,              \* config.DEBUG
    usage,              \* usage_events.count of one client identity for today
    req,                \* request -> position inside chat() and the count it read
    invoked,            \* history: number of agent.ainvoke calls for the identity
    failed              \* history: whether a tracker read / increment has raised

scrapeVars == <<resp, batch_size, daily_scrape_count, pc, all_norma_ids, i, tasks,
                inflight, results, csvfile, total_scraped, groups, sleeps,
                arrival, succeeded, overtaken, attempt, answers, firstRun>>

pipeVars == <<batchFile, gcsDaily, masterFile, gcsMaster, bqMaster, staging,
              embeddings, run, lastLoad, consumed>>

dateVars == <<date_str, date_out>>

calVars == <<start_dow, day, phase, ticks>>

pageVars == <<page, data>>

chatVars == <<debug, usage, req, invoked, failed>>

vars == <<scrapeVars, pipeVars, dateVars, calVars, pageVars, chatVars>>

\* what a step of the pipeline, and a step of scrape_by_date, leaves alone
offPipeVars == <<scrapeVars, dateVars, calVars, pageVars, chatVars>>

offScrapeVars == <<pipeVars, dateVars, calVars, pageVars, chatVars>>

-----------------------------------------------------------------------------
(* Bounds *)

\* Longest search results page (number of norma links on it); also the
\* number of distinct identifiers a page can reference.
MaxLinks == 3

Ids == 1..MaxLinks

\* Titles a fetched page can carry in its <h1>.
Titles == {"t1", "t2"}

\* The values the model draws for batch_size and daily_scrape_count.
BatchSizes == 1..MaxLinks
ScrapeCounts == 1..MaxLinks

RECURSIVE SeqsUpTo(_, _)
SeqsUpTo(S, n) ==
    IF n = 0 THEN {<<>>}
    ELSE LET shorter == SeqsUpTo(S, n - 1)
         IN  shorter \cup {Append(s, x) : s \in shorter, x \in S}

\* What the search endpoint can answer: a 200 page with its norma links (and,
\* when it has none, with or without the "no results" text), an HTTP error
\* status, or a network error / timeout.
Responses ==
    {[kind |-> "ok", links |-> l, marker |-> FALSE] : l \in SeqsUpTo(Ids, MaxLinks)}
    \cup {[kind |-> "ok", links |-> <<>>, marker |-> TRUE],
          [kind |-> "httperr", links |-> <<>>, marker |-> FALSE],
          [kind |-> "requesterr", links |-> <<>>, marker |-> FALSE]}

\* What one GET of a norma page can do.
FetchOutcomes == {"ok", "notfound", "httperr", "requesterr", "parseerr"}

-----------------------------------------------------------------------------
(* InfolegClient.convert_date_format *)

\* A date string is modelled by its parts: surrounding whitespace, a day
\* token, a separator, a month token, a separator, a year token and trailing
\* characters, each token a tuple of one-character strings.
DayTokens == {<<"0", "1">>, <<"1">>, <<"2", "9">>, <<"3", "1">>, <<"3", "2">>, <<"0", "0">>}

NumMonthTokens == {<<"0", "2">>, <<"2">>, <<"1", "2">>, <<"1", "3">>, <<"0", "4">>}

AlphaMonthTokens ==
    {<<"E", "N", "E">>, <<"e", "n", "e">>, <<"F", "e", "b">>, <<"a", "b", "r">>,
     <<"D", "I", "C">>, <<"J", "A", "N">>, <<"S", "E", "P", "T">>}

YearTokens == {<<"2", "0", "2", "4">>, <<"2", "0", "2", "3">>, <<"2", "4">>}

Separators == {"/", "-"}

\* what follows the year: nothing, whitespace, or other characters
Tails == {"", " ", "x"}

EmptyString ==
    [empty |-> TRUE, lead |-> "", d |-> <<>>, sep1 |-> "/", m |-> <<>>, sep2 |-> "/",
     y |-> <<>>, tail |-> ""]

DateStrings ==
    {EmptyString} \cup
    [empty : {FALSE}, lead : {"", " "}, d : DayTokens, sep1 : Separators,
     m : NumMonthTokens \cup AlphaMonthTokens, sep2 : Separators, y : YearTokens,
     tail : Tails]

NoneDate == [kind |-> "None", y |-> <<>>, m |-> <<>>, d |-> <<>>]
NotReturned == [kind |-> "pending", y |-> <<>>, m |-> <<>>, d |-> <<>>]
DateString(y, m, d) == [kind |-> "str", y |-> y, m |-> m, d |-> d]

DigitChars == <<"0", "1", "2", "3", "4", "5", "6", "7", "8", "9">>

IsDigits(tok) == \A k \in 1..Len(tok) : \E n \in 1..10 : DigitChars[n] = tok[k]

DigitValue(c) == (CHOOSE n \in 1..10 : DigitChars[n] = c) - 1

RECURSIVE Value(_)
Value(digits) ==
    IF digits = <<>> THEN 0
    ELSE 10 * Value(SubSeq(digits, 1, Len(digits) - 1)) + DigitValue(digits[Len(digits)])

\* "%02d"
Pad2(n) == <<DigitChars[(n \div 10) + 1], DigitChars[(n % 10) + 1]>>

IsLeap(y) == (y % 4 = 0 /\ y % 100 # 0) \/ y % 400 = 0

DaysIn(m, y) ==
    IF m = 2 THEN (IF IsLeap(y) THEN 29 ELSE 28)
    ELSE IF m \in {4, 6, 9, 11} THEN 30 ELSE 31

\* date_str.strip(): the string with its surrounding whitespace removed
Strip(s) == [s EXCEPT !.lead = "", !.tail = IF s.tail = " " THEN "" ELSE s.tail]

\* lines 53-57: datetime.strptime(date_str.strip(), "%d/%m/%Y"), whose
\* directives take one or two digits for the day (1-31) and the month (1-12)
\* and four for the year, which accepts no unconverted data and which builds
\* a real calendar date; then strftime("%Y-%m-%d"). raised stands for the
\* ValueError that the except clause passes over.
StrptimeSlash(s) ==
    LET t == Strip(s)
        shape == /\ ~t.empty
                 /\ t.sep1 = "/" /\ t.sep2 = "/"
                 /\ IsDigits(t.d) /\ Len(t.d) \in 1..2 /\ Value(t.d) \in 1..31
                 /\ IsDigits(t.m) /\ Len(t.m) \in 1..2 /\ Value(t.m) \in 1..12
                 /\ Len(t.y) = 4
                 /\ t.tail = ""
        real == shape /\ Value(t.d) <= DaysIn(Value(t.m), Value(t.y))
    IN  IF real THEN [raised |-> FALSE,
                      value |-> DateString(t.y, Pad2(Value(t.m)), Pad2(Value(t.d)))]
        ELSE [raised |-> TRUE, value |-> NoneDate]

Upper ==
    [c \in {"E", "N", "e", "n", "F", "b", "a", "r", "D", "I", "C", "J", "A", "S", "P", "T"} |->
        CASE c = "e" -> "E" [] c = "n" -> "N" [] c = "b" -> "B" [] c = "a" -> "A"
          [] c = "r" -> "R" [] OTHER -> c]

IsLetters(tok) == \A k \in 1..Len(tok) : tok[k] \in DOMAIN Upper

\* month_abbr.upper()
UpperOf(tok) == [k \in 1..Len(tok) |-> Upper[tok[k]]]

\* lines 60-85: the keys of month_map that an upper-cased abbreviation can hit
month_map ==
    [abbr \in {<<"E", "N", "E">>, <<"F", "E", "B">>, <<"M", "A", "R">>, <<"A", "B", "R">>,
               <<"M", "A", "Y">>, <<"J", "U", "N">>, <<"J", "U", "L">>, <<"A", "G", "O">>,
               <<"S", "E", "P">>, <<"O", "C", "T">>, <<"N", "O", "V">>, <<"D", "I", "C">>} |->
        CASE abbr = <<"E", "N", "E">> -> <<"0", "1">> [] abbr = <<"F", "E", "B">> -> <<"0", "2">>
          [] abbr = <<"M", "A", "R">> -> <<"0", "3">> [] abbr = <<"A", "B", "R">> -> <<"0", "4">>
          [] abbr = <<"M", "A", "Y">> -> <<"0", "5">> [] abbr = <<"J", "U", "N">> -> <<"0", "6">>
          [] abbr = <<"J", "U", "L">> -> <<"0", "7">> [] abbr = <<"A", "G", "O">> -> <<"0", "8">>
          [] abbr = <<"S", "E", "P">> -> <<"0", "9">> [] abbr = <<"O", "C", "T">> -> <<"1", "0">>
          [] abbr = <<"N", "O", "V">> -> <<"1", "1">> [] OTHER -> <<"1", "2">>]

\* line 87: re.match(r"(\d{2})-([A-Za-z]{3})-(\d{4})", date_str.strip()):
\* anchored at the start of the string only, so whatever follows the four
\* digits of the year is ignored
RegexDash(s) ==
    LET t == Strip(s)
    IN  /\ ~t.empty
        /\ t.sep1 = "-" /\ t.sep2 = "-"
        /\ IsDigits(t.d) /\ Len(t.d) = 2
        /\ IsLetters(t.m) /\ Len(t.m) = 3
        /\ IsDigits(t.y) /\ Len(t.y) >= 4

\* lines 49-94
ConvertDateFormat(s) ==
    IF s.empty THEN NoneDate
    ELSE LET slash == StrptimeSlash(s)
         IN  IF ~slash.raised THEN slash.value
             ELSE IF RegexDash(s) /\ UpperOf(s.m) \in DOMAIN month_map
             THEN DateString(SubSeq(s.y, 1, 4), month_map[UpperOf(s.m)], s.d)
             ELSE NoneDate

\* a call of convert_date_format is about to be made
DateStart ==
    /\ date_str \in DateStrings
    /\ date_out = NotReturned

\* the call returns
ConvertDate ==
    /\ date_out = NotReturned
    /\ date_out' = ConvertDateFormat(date_str)
    /\ UNCHANGED <<date_str, scrapeVars, pipeVars, calVars, pageVars, chatVars>>

\* no call of convert_date_format is modelled
DateIdle ==
    /\ date_str = EmptyString
    /\ date_out = NoneDate

-----------------------------------------------------------------------------
(* InfolegClient.search_boletines *)

RECURSIVE NormaIdsKeepLast(_)
\* Each id kept where it appears last on the page.
NormaIdsKeepLast(links) ==
    IF links = <<>> THEN <<>>
    ELSE LET rest == NormaIdsKeepLast(Tail(links))
         IN  IF \E k \in 1..Len(rest) : rest[k] = Head(links)
             THEN rest
             ELSE <<Head(links)>> \o rest

RECURSIVE NormaIds(_)
\* lines 142-152: ids of the links, each kept at its first appearance
NormaIds(links) ==
    IF links = <<>> THEN <<>>
    ELSE LET front == NormaIds(SubSeq(links, 1, Len(links) - 1))
             last  == links[Len(links)]
         IN  IF \E k \in 1..Len(front) : front[k] = last
             THEN front
             ELSE Append(front, last)

\* lines 126-172: the body of the try block; exc is the exception it ends
\* with ("none": it reaches `return norma_ids`)
SearchTryBody(r) ==
    CASE r.kind = "requesterr" -> [exc |-> "RequestError", ids |-> <<>>]
      [] r.kind = "httperr"    -> [exc |-> "HTTPStatusError", ids |-> <<>>]
      [] OTHER ->
           LET norma_ids == NormaIds(r.links)
           IN  IF Len(norma_ids) = 0 /\ ~r.marker
               THEN [exc |-> "LookupError", ids |-> <<>>]
               ELSE [exc |-> "none", ids |-> norma_ids]

\* Handlers that let a network error through.
SearchCaughtStatusOnly == {"HTTPStatusError", "LookupError"}

\* lines 174-182: the except clauses; `except Exception` takes every
\* exception the first two do not, LookupError included
SearchCaught == {"HTTPStatusError", "RequestError", "LookupError"}

\* search_boletines as its caller sees it
SearchBoletines(r) ==
    LET body == SearchTryBody(r)
    IN  IF body.exc = "none" THEN [raised |-> FALSE, ids |-> body.ids]
        ELSE IF body.exc \in SearchCaught THEN [raised |-> FALSE, ids |-> <<>>]
        ELSE [raised |-> TRUE, ids |-> <<>>]

-----------------------------------------------------------------------------
(* InfolegClient.scrape_norma_by_id *)

NoneResult == [kind |-> "None", id_norma |-> 0, titulo_resumido |-> ""]
ExceptionResult == [kind |-> "exception", id_norma |-> 0, titulo_resumido |-> ""]
Pending == [kind |-> "pending", id_norma |-> 0, titulo_resumido |-> ""]
\* a request the server has stopped answering
Hung == [kind |-> "hung", id_norma |-> 0, titulo_resumido |-> ""]
DictResult(id, t) == [kind |-> "dict", id_norma |-> id, titulo_resumido |-> t]

\* lines 195-398: the body of the try block for a page that answers with
\* outcome o and, when it parses, carries title t
NormaTryBody(norma_id, o, t) ==
    CASE o = "requesterr" -> [exc |-> "RequestError", value |-> NoneResult]
      [] o = "notfound"   -> [exc |-> "none", value |-> NoneResult]
      [] o = "httperr"    -> [exc |-> "HTTPStatusError", value |-> NoneResult]
      [] o = "parseerr"   -> [exc |-> "Exception", value |-> NoneResult]
      [] OTHER            -> [exc |-> "none", value |-> DictResult(norma_id, t)]

\* A handler that hands back the record as far as it was filled in when the
\* parse raised, instead of None.
ScrapeNormaByIdPartial(norma_id, o, t) ==
    IF o = "parseerr" THEN DictResult(norma_id, "")
    ELSE LET body == NormaTryBody(norma_id, o, t)
         IN  IF body.exc = "none" THEN body.value ELSE NoneResult

\* lines 400-408: every exception of the body is caught and None returned
ScrapeNormaById(norma_id, o, t) ==
    LET body == NormaTryBody(norma_id, o, t)
    IN  IF body.exc = "none" THEN body.value
        ELSE IF body.exc \in {"HTTPStatusError", "RequestError", "Exception"}
        THEN NoneResult
        ELSE ExceptionResult

-----------------------------------------------------------------------------
(* InfolegClient.scrape_norma_by_id: the date and summary fields *)

\* an element of the page that holds a date text, or its absence
NoElement == [present |-> FALSE, text |-> EmptyString]
Element(text) == [present |-> TRUE, text |-> text]

\* the texts the span of the sanction date is given: nothing, or a day 01 or
\* 31 of 2024 in every month form, with and without trailing characters
SpanTexts ==
    {s \in DateStrings :
        \/ s.empty
        \/ /\ s.lead = "" /\ s.sep1 = s.sep2
           /\ s.d \in {<<"0", "1">>, <<"3", "1">>}
           /\ s.y = <<"2", "0", "2", "4">>}

\* the texts the link of the bulletin date is given
LinkTexts ==
    {s \in SpanTexts : s.empty \/ (s.tail = "" /\ s.d = <<"0", "1">>)}

\* line 309: what re.search(r"(\d{2}-[A-Z]{3}-\d{4})", boletin_text) can
\* capture: two digits, three capitals, four digits, and nothing around them
RegexCaptures ==
    {s \in SpanTexts :
        /\ ~s.empty
        /\ s.sep1 = "-" /\ s.tail = ""
        /\ s.m \in {<<"E", "N", "E">>, <<"D", "I", "C">>, <<"J", "A", "N">>}}

\* the value of a date field of the record: "", the normalizer's string, or
\* the text of the element as it was read
EmptyField == [kind |-> "empty", value |-> NoneDate, text |-> EmptyString]
Normalized(value) == [kind |-> "normalized", value |-> value, text |-> EmptyString]
AsRead(text) ==
    IF text.empty THEN EmptyField
    ELSE [kind |-> "raw", value |-> NoneDate, text |-> text]

\* lines 272-280: the sanction date. get_text(strip=True) strips the text;
\* what convert_date_format turns down is stored as it was read
FechaSancion(pg) ==
    IF ~pg.fecha_tag.present THEN EmptyField
    ELSE LET fecha_text == Strip(pg.fecha_tag.text)
             fecha_converted == ConvertDateFormat(fecha_text)
         IN  IF fecha_converted.kind = "str" THEN Normalized(fecha_converted)
             ELSE AsRead(fecha_text)

\* lines 293-313: the bulletin date, from the link and, when that left the
\* field empty, from the regex over the paragraph's text
FechaBoletin(pg) ==
    LET from_link ==
            IF ~pg.fecha_link.present THEN EmptyField
            ELSE LET fecha_converted == ConvertDateFormat(Strip(pg.fecha_link.text))
                 IN  IF fecha_converted.kind = "str" THEN Normalized(fecha_converted)
                     ELSE EmptyField
        from_regex ==
            IF ~pg.fecha_match.present THEN EmptyField
            ELSE LET fecha_converted == ConvertDateFormat(pg.fecha_match.text)
                 IN  IF fecha_converted.kind = "str" THEN Normalized(fecha_converted)
                     ELSE EmptyField
    IN  IF ~pg.p_boletin THEN EmptyField
        ELSE IF from_link.kind # "empty" THEN from_link
        ELSE from_regex

\* Lengths of the summary texts the pages carry, the label not counted.
SummaryLengths == {0, 9, 10, 11}

\* how a text can begin
Labels == {"Resumen:", "resumen:", "RESUMEN:", ""}

\* the text of an element: how it begins and how many characters follow
\* the label and the whitespace after it
SummaryTexts == [label : Labels, len : SummaryLengths]

NoSummary == [present |-> FALSE, text |-> [label |-> "", len |-> 0]]

\* the value of texto_resumido: "", or the text kept and where it was found
\* (0: the parent of the <strong>, k: the k-th <p>)
EmptyText == [kind |-> "empty", at |-> 0, len |-> 0]
KeptText(at, len) == [kind |-> "text", at |-> at, len |-> len]

\* A test that lets a text of ten characters through.
LongEnoughFromTen(len) == len >= 10

\* lines 337, 347: len(text) > 10
LongEnough(len) == len > 10

\* lines 331-349: the summary. re.sub with IGNORECASE strips the label
\* however it is written; the <p> elements are tried in document order, only
\* those that start with "Resumen:" or "resumen:", until one is long enough
TextoResumido(pg) ==
    LET from_strong ==
            IF pg.resumen_strong.present /\ LongEnough(pg.resumen_strong.text.len)
            THEN KeptText(0, pg.resumen_strong.text.len)
            ELSE EmptyText
        RECURSIVE Scan(_)
        Scan(k) ==
            IF k > Len(pg.ps) THEN EmptyText
            ELSE IF pg.ps[k].label \in {"Resumen:", "resumen:"} /\ LongEnough(pg.ps[k].len)
            THEN KeptText(k, pg.ps[k].len)
            ELSE Scan(k + 1)
    IN  IF from_strong.kind # "empty" THEN from_strong ELSE Scan(1)

\* the record before the parse has returned
NotParsed == [parsed |-> FALSE, fecha_sancion |-> EmptyField, fecha_boletin |-> EmptyField,
              texto_resumido |-> EmptyText]

\* lines 207-225: the fields as the record is initialized
BlankPage ==
    [fecha_tag |-> NoElement, p_boletin |-> FALSE, fecha_link |-> NoElement,
     fecha_match |-> NoElement, resumen_strong |-> NoSummary, ps |-> <<>>]

\* a page whose date elements are any of the texts above
FechasStart ==
    /\ \E tag \in {NoElement} \cup {Element(t) : t \in SpanTexts},
          link \in {NoElement} \cup {Element(t) : t \in LinkTexts},
          match \in {NoElement} \cup {Element(t) : t \in RegexCaptures},
          p \in BOOLEAN :
            /\ ~p => (link = NoElement /\ match = NoElement)
            /\ page = [BlankPage EXCEPT !.fecha_tag = tag, !.p_boletin = p,
                                         !.fecha_link = link, !.fecha_match = match]
    /\ data = NotParsed

\* Most <p> elements of a page.
MaxParagraphs == 2

\* a page with or without a <strong> holding "Resumen" and with up to
\* MaxParagraphs <p> elements
ResumenStart ==
    /\ \E strong \in {NoSummary} \cup
                      {[present |-> TRUE, text |-> t] : t \in [label : {"Resumen:"}, len : SummaryLengths]},
          ps \in SeqsUpTo(SummaryTexts, MaxParagraphs) :
            page = [BlankPage EXCEPT !.resumen_strong = strong, !.ps = ps]
    /\ data = NotParsed

\* lines 204-398: the page is parsed and the record returned
ParsePage ==
    /\ ~data.parsed
    /\ data' = [parsed |-> TRUE,
                fecha_sancion |-> FechaSancion(page),
                fecha_boletin |-> FechaBoletin(page),
                texto_resumido |-> TextoResumido(page)]
    /\ UNCHANGED <<page, scrapeVars, pipeVars, dateVars, calVars, chatVars>>

\* no parse of a page is modelled field by field
PageIdle ==
    /\ page = BlankPage
    /\ data = NotParsed

-----------------------------------------------------------------------------
(* InfolegClient.scrape_by_date *)

\* A group that is handed to gather only once it has grown past batch_size.
GroupFullLate(ts, W) == Len(ts) > W

\* line 474
GroupFull(ts, W) == Len(ts) >= W

\* A pacing test that also sleeps after the group ending at the last identifier.
MoreRemainAlways(idx, n) == idx < n

\* line 486
MoreRemain(idx, n) == idx < n - 1

\* Results handed back in the order the fetches completed.
GatherInArrivalOrder(res, arr) == [k \in 1..Len(res) |-> res[arr[k]]]

\* lines 475, 491: asyncio.gather returns the results in the order of the
\* awaitables it was given, whatever the order of completion
Gather(res, arr) == res

\* lines 477-480, 492-495: the rows written for one gathered group
RowOf(result) == [id_norma |-> result.id_norma, titulo_resumido |-> result.titulo_resumido]

RECURSIVE RowsWritten(_)
RowsWritten(res) ==
    IF res = <<>> THEN <<>>
    ELSE LET rest == RowsWritten(Tail(res))
         IN  IF Head(res).kind = "dict" THEN <<RowOf(Head(res))>> \o rest ELSE rest

\* A slice that lets one identifier more than the cap through.
CappedOneMore(ids, cap) == SubSeq(ids, 1, IF Len(ids) < cap + 1 THEN Len(ids) ELSE cap + 1)

\* line 463
Capped(ids, cap) == SubSeq(ids, 1, IF Len(ids) < cap THEN Len(ids) ELSE cap)

\* An output file opened for appending.
OpenOutputAppend(existing) == existing

\* line 453: open(output_file, "w") empties the file if there is one
OpenOutput(existing) == <<>>

\* the answer of a page that has not been fetched
Unfetched == [o |-> "unfetched", t |-> "t1"]

\* the answer of a server that accepts the request and then stays silent
Silence == [o |-> "hung", t |-> "t1"]

\* A GET with no timeout, which waits for the server for ever.
GetWaitsForever == FALSE

\* line 196: client.get(url, timeout=30.0) raises httpx.TimeoutException, a
\* RequestError, once the server has been silent for 30 seconds
GetTimesOut == TRUE

\* the record of the first execution, before it has ended
NotYetRun == [pc |-> "none", rows |-> <<>>, count |-> 0]

\* the state in which scrape_by_date is entered
ScrapeStart ==
    /\ resp \in Responses
    /\ batch_size \in BatchSizes
    /\ daily_scrape_count \in ScrapeCounts
    /\ pc = "start"
    /\ all_norma_ids = <<>>
    /\ i = 0
    /\ tasks = <<>>
    /\ inflight = {}
    /\ results = <<>>
    /\ csvfile = <<>>
    /\ total_scraped = 0
    /\ groups = <<>>
    /\ sleeps = 0
    /\ arrival = <<>>
    /\ succeeded = [id \in Ids |-> "unfetched"]
    /\ overtaken = FALSE
    /\ attempt = 1
    /\ answers = [id \in Ids |-> Unfetched]
    /\ firstRun = NotYetRun

\* lines 453-463: open the output, write the header, search, cap
Search ==
    /\ UNCHANGED offScrapeVars
    /\ pc = "start"
    /\ LET found == SearchBoletines(resp)
       IN  IF found.raised
           THEN /\ pc' = "raised"
                /\ all_norma_ids' = <<>>
           ELSE /\ pc' = "loop"
                /\ all_norma_ids' = Capped(found.ids, daily_scrape_count)
    /\ csvfile' = OpenOutput(csvfile)
    /\ total_scraped' = 0
    /\ UNCHANGED <<resp, batch_size, daily_scrape_count, i, tasks, inflight, results,
                   groups, sleeps, arrival, succeeded, overtaken,
                   attempt, answers, firstRun>>

\* asyncio.gather(*tasks): every coroutine of the group starts
Issue(ts) ==
    /\ inflight' = 1..Len(ts)
    /\ results' = [k \in 1..Len(ts) |-> Pending]
    /\ arrival' = <<>>
    /\ groups' = Append(groups, ts)

\* lines 470-475: one iteration of the for loop up to the gather
LoopAppend ==
    /\ UNCHANGED offScrapeVars
    /\ pc = "loop"
    /\ i < Len(all_norma_ids)
    /\ LET ts == Append(tasks, all_norma_ids[i + 1])
       IN  /\ tasks' = ts
           /\ IF GroupFull(ts, batch_size)
              THEN /\ pc' = "gather"
                   /\ Issue(ts)
                   /\ i' = i
              ELSE /\ pc' = "loop"
                   /\ i' = i + 1
                   /\ UNCHANGED <<inflight, results, arrival, groups>>
    /\ UNCHANGED <<resp, batch_size, daily_scrape_count, all_norma_ids, csvfile,
                   total_scraped, sleeps, succeeded, overtaken,
                   attempt, answers, firstRun>>

\* one scrape_norma_by_id of the awaited group returns
FetchComplete ==
    /\ UNCHANGED offScrapeVars
    /\ pc \in {"gather", "final_gather"}
    /\ \E pos \in inflight, o \in FetchOutcomes, t \in Titles :
         /\ results[pos] = Pending
         /\ o # "ok" => t = "t1"
         /\ answers[tasks[pos]] \in {Unfetched, [o |-> o, t |-> t]}
         /\ answers' = [answers EXCEPT ![tasks[pos]] = [o |-> o, t |-> t]]
         /\ results' = [results EXCEPT ![pos] = ScrapeNormaById(tasks[pos], o, t)]
         /\ inflight' = inflight \ {pos}
         /\ arrival' = Append(arrival, pos)
         /\ succeeded' = [succeeded EXCEPT ![tasks[pos]] = IF o = "ok" THEN "yes" ELSE "no"]
         /\ overtaken' = (overtaken \/ \E q \in inflight : q < pos)
    /\ UNCHANGED <<resp, batch_size, daily_scrape_count, pc, all_norma_ids, i, tasks,
                   csvfile, total_scraped, groups, sleeps, attempt, firstRun>>

\* the server stops answering one request of the awaited group
FetchHangs ==
    /\ UNCHANGED offScrapeVars
    /\ pc \in {"gather", "final_gather"}
    /\ \E pos \in inflight :
         /\ results[pos] = Pending
         /\ answers[tasks[pos]] \in {Unfetched, Silence}
         /\ results' = [results EXCEPT ![pos] = Hung]
    /\ UNCHANGED <<resp, batch_size, daily_scrape_count, pc, all_norma_ids, i, tasks,
                   inflight, csvfile, total_scraped, groups, sleeps, arrival, succeeded,
                   overtaken, attempt, answers, firstRun>>

\* lines 196, 403-405: the timeout of a hung request expires; the
\* RequestError is caught and scrape_norma_by_id returns None
FetchTimesOut ==
    /\ UNCHANGED offScrapeVars
    /\ pc \in {"gather", "final_gather"}
    /\ GetTimesOut
    /\ \E pos \in inflight :
         /\ results[pos] = Hung
         /\ results' = [results EXCEPT ![pos] = ScrapeNormaById(tasks[pos], "requesterr", "t1")]
         /\ inflight' = inflight \ {pos}
         /\ arrival' = Append(arrival, pos)
         /\ succeeded' = [succeeded EXCEPT ![tasks[pos]] = "no"]
         /\ answers' = [answers EXCEPT ![tasks[pos]] = Silence]
         /\ overtaken' = (overtaken \/ \E q \in inflight : q < pos)
    /\ UNCHANGED <<resp, batch_size, daily_scrape_count, pc, all_norma_ids, i, tasks,
                   csvfile, total_scraped, groups, sleeps, attempt, firstRun>>

\* lines 475-487: gather returns, the rows are written and flushed
GatherReturn ==
    /\ UNCHANGED offScrapeVars
    /\ pc = "gather"
    /\ inflight = {}
    /\ LET rows == RowsWritten(Gather(results, arrival))
       IN  /\ csvfile' = csvfile \o rows
           /\ total_scraped' = total_scraped + Len(rows)
    /\ tasks' = <<>>
    /\ results' = <<>>
    /\ arrival' = <<>>
    /\ IF MoreRemain(i, Len(all_norma_ids))
       THEN pc' = "sleep" /\ i' = i
       ELSE pc' = "loop" /\ i' = i + 1
    /\ UNCHANGED <<resp, batch_size, daily_scrape_count, all_norma_ids, inflight,
                   groups, sleeps, succeeded, overtaken,
                   attempt, answers, firstRun>>

\* line 487: await asyncio.sleep(delay)
Sleep ==
    /\ UNCHANGED offScrapeVars
    /\ pc = "sleep"
    /\ sleeps' = sleeps + 1
    /\ pc' = "loop"
    /\ i' = i + 1
    /\ UNCHANGED <<resp, batch_size, daily_scrape_count, all_norma_ids, tasks, inflight,
                   results, csvfile, total_scraped, groups, arrival, succeeded, overtaken,
                   attempt, answers, firstRun>>

\* lines 490-491: the loop is over; the remaining tasks, if any, are gathered
LoopEnd ==
    /\ UNCHANGED offScrapeVars
    /\ pc = "loop"
    /\ i >= Len(all_norma_ids)
    /\ IF tasks # <<>>
       THEN pc' = "final_gather" /\ Issue(tasks)
       ELSE pc' = "done" /\ UNCHANGED <<inflight, results, arrival, groups>>
    /\ UNCHANGED <<resp, batch_size, daily_scrape_count, all_norma_ids, i, tasks, csvfile,
                   total_scraped, sleeps, succeeded, overtaken,
                   attempt, answers, firstRun>>

\* lines 491-498: the last gather returns, its rows are written, the file is
\* closed and total_scraped returned
FinalReturn ==
    /\ UNCHANGED offScrapeVars
    /\ pc = "final_gather"
    /\ inflight = {}
    /\ LET rows == RowsWritten(Gather(results, arrival))
       IN  /\ csvfile' = csvfile \o rows
           /\ total_scraped' = total_scraped + Len(rows)
    /\ tasks' = <<>>
    /\ results' = <<>>
    /\ arrival' = <<>>
    /\ pc' = "done"
    /\ UNCHANGED <<resp, batch_size, daily_scrape_count, all_norma_ids, i, inflight,
                   groups, sleeps, succeeded, overtaken,
                   attempt, answers, firstRun>>

\* scrape_boletin_and_archive is materialized again for the same partition
\* (defs/assets.py lines 84-91): scrape_by_date is entered a second time with
\* the same date and the same output path, and the site answers as it did
Rerun ==
    /\ UNCHANGED offScrapeVars
    /\ pc \in {"done", "raised"}
    /\ attempt = 1
    /\ attempt' = 2
    /\ firstRun' = [pc |-> pc, rows |-> csvfile, count |-> total_scraped]
    /\ pc' = "start"
    /\ all_norma_ids' = <<>>
    /\ i' = 0
    /\ tasks' = <<>>
    /\ inflight' = {}
    /\ results' = <<>>
    /\ total_scraped' = 0
    /\ groups' = <<>>
    /\ sleeps' = 0
    /\ arrival' = <<>>
    /\ succeeded' = [id \in Ids |-> "unfetched"]
    /\ overtaken' = FALSE
    /\ UNCHANGED <<resp, batch_size, daily_scrape_count, csvfile, answers>>

-----------------------------------------------------------------------------
(* The warehouse, the files and the asset graph (defs/assets.py) *)

\* Number of Dagster runs the model starts.
MaxRuns == 2

\* Number of distinct norma identifiers the upstream site serves to the runs.
MaxNorma == 2

\* Longest search results page the runs are served.
MaxBatch == 1

RunIds == 1..MaxRuns
\* partitions are numbered in the order they are first run, so there are
\* never more of them than runs
Partitions == 1..MaxRuns
PipelineIds == 1..MaxNorma

\* InfolegClient() is built with its defaults in definitions.py
DefaultScrapeCount == 200

Rows == [id_norma : PipelineIds, titulo_resumido : Titles]

\* a file or blob: whether it exists and its data rows (the header and the
\* blank line that master_daily_merge writes before each batch are not counted)
NoFile == [exists |-> FALSE, rows |-> <<>>]
FileOf(rows) == [exists |-> TRUE, rows |-> rows]

\* a warehouse table is a bag of rows: row -> number of copies
EmptyTable == [row \in Rows |-> 0]
TableOf(rows) ==
    [row \in Rows |-> Cardinality({k \in 1..Len(rows) : rows[k] = row})]
TableSize(table) ==
    LET RECURSIVE Sum(_)
        Sum(S) == IF S = {} THEN 0
                  ELSE LET x == CHOOSE y \in S : TRUE IN table[x] + Sum(S \ {x})
    IN  Sum(Rows)
CountOfId(table, id) ==
    LET RECURSIVE Sum(_)
        Sum(S) == IF S = {} THEN 0
                  ELSE LET x == CHOOSE y \in S : TRUE IN table[x] + Sum(S \ {x})
    IN  Sum({row \in Rows : row.id_norma = id})

Scrape == "scrape_boletin_and_archive"
Append_ == "master_daily_merge"
Archive == "master_archive"
MasterLoad == "master_to_bigquery"
DailyLoad == "daily_to_bigquery"
EmbMerge == "master_daily_embeddings_merge"

Assets == {Scrape, Append_, Archive, MasterLoad, DailyLoad, EmbMerge}

\* the deps= of each @asset, restricted to the assets modelled here
\* (master_daily_embeddings_merge also names master_text_embeddings, a
\* one-time CREATE TABLE that no modelled run selects)
Deps ==
    [a \in Assets |->
        CASE a = Scrape     -> {}
          [] a = Append_    -> {Scrape}
          [] a = Archive    -> {Append_}
          [] a = MasterLoad -> {}
          [] a = DailyLoad  -> {Scrape}
          [] a = EmbMerge   -> {DailyLoad}]

\* the selection of infoleg_scraper_job, the job of daily_schedule
JobSelection == {Scrape, DailyLoad, EmbMerge}

\* a run launched by hand over the assets of Definitions that are modelled
FullSelection == Assets

\* a run launched by hand over the append and archive stages, for a
\* partition whose batch file is already in /tmp
MergeSelection == {Append_, Archive}

\* a run launched by hand over the two loads into staging and out of it
StagingSelection == {DailyLoad, EmbMerge}

Selection(kind) ==
    CASE kind = "job"     -> JobSelection
      [] kind = "merge"   -> MergeSelection
      [] kind = "staging" -> StagingSelection
      [] OTHER            -> FullSelection

\* no batch has been appended to the master file or loaded into staging
NotConsumed == [p \in Partitions |-> [appended |-> 0, loaded |-> 0]]

NewRun ==
    [state |-> "new", kind |-> "job", partition |-> 1,
     st |-> [a \in Assets |-> "unselected"],
     count |-> -1, uploaded |-> FALSE, merged |-> "no", truncated |-> FALSE,
     read |-> [row \in Rows |-> 0], search |-> "none"]

\* a step whose upstream step of the same run failed or was skipped is skipped
SkipOnce(st, sel) ==
    [a \in Assets |->
        IF st[a] = "pending" /\ \E d \in Deps[a] \cap sel : st[d] \in {"failed", "skipped"}
        THEN "skipped" ELSE st[a]]
SkipDownstream(st, sel) == SkipOnce(SkipOnce(SkipOnce(st, sel), sel), sel)

\* the step statuses of run r once step a has ended with status result
StepEnds(r, a, result) ==
    SkipDownstream([run[r].st EXCEPT ![a] = result], Selection(run[r].kind))

\* Dagster starts a step once every upstream step selected in the run succeeded
Ready(r, a) ==
    /\ run[r].state = "started"
    /\ run[r].st[a] = "pending"
    /\ \A d \in Deps[a] \cap Selection(run[r].kind) : run[r].st[d] = "ok"

\* what the pages of the site answer to the runs' fetches
PageChoices ==
    {[o |-> "ok", t |-> t] : t \in Titles}
    \cup {[o |-> o, t |-> "t1"] : o \in FetchOutcomes \ {"ok"}}

PipelineResponses ==
    {[kind |-> "ok", links |-> l, marker |-> FALSE] : l \in SeqsUpTo(PipelineIds, MaxBatch)}
    \cup {[kind |-> "ok", links |-> <<>>, marker |-> TRUE],
          [kind |-> "httperr", links |-> <<>>, marker |-> FALSE],
          [kind |-> "requesterr", links |-> <<>>, marker |-> FALSE]}

\* scrape_by_date as a whole (infoleg_scraper.py lines 452-498): the rows it
\* leaves in the output file for search answer rs and page answers f
ScrapeByDate(rs, f, cap) ==
    LET found == SearchBoletines(rs)
        ids == Capped(found.ids, cap)
        res == [k \in 1..Len(ids) |-> ScrapeNormaById(ids[k], f[ids[k]].o, f[ids[k]].t)]
    IN  [raised |-> found.raised,
         rows |-> IF found.raised THEN <<>> ELSE RowsWritten(Gather(res, <<>>))]

\* what scrape_by_date can leave behind, over every answer of the site,
\* with the kind of answer the search got
ScrapeOutcomes ==
    {[search |-> rs.kind, out |-> ScrapeByDate(rs, f, DefaultScrapeCount)] :
        rs \in PipelineResponses, f \in [PipelineIds -> PageChoices]}

\* A zero check that lets an empty batch through.
ZeroCountIgnored(scraped_count) == FALSE

\* assets.py line 93
ZeroCountRaises(scraped_count) == scraped_count = 0

\* assets.py lines 84-97: scrape, fail on a zero count, upload the batch
ScrapeStage(r) ==
    /\ Ready(r, Scrape)
    /\ \E outcome \in ScrapeOutcomes, upload_ok \in BOOLEAN :
         LET p == run[r].partition
             out == outcome.out
             scraped_count == Len(out.rows)
             raises == out.raised \/ ZeroCountRaises(scraped_count)
             ok == ~raises /\ upload_ok
         IN  /\ batchFile' = [batchFile EXCEPT ![p] = FileOf(out.rows)]
             /\ gcsDaily' = IF ok THEN [gcsDaily EXCEPT ![p] = FileOf(out.rows)]
                            ELSE gcsDaily
             /\ run' = [run EXCEPT ![r].st = StepEnds(r, Scrape, IF ok THEN "ok" ELSE "failed"),
                                   ![r].count = scraped_count,
                                   ![r].search = outcome.search,
                                   ![r].uploaded = ~raises]
    /\ UNCHANGED <<masterFile, gcsMaster, bqMaster, staging, embeddings, lastLoad, consumed>>

\* A master file opened for writing instead of appending.
AppendRowsOverwrite(master, batch) == batch

\* assets.py lines 139-140: open(MASTER_FILE_PATH, "a") and write the rows
AppendRows(master, batch) == master \o batch

\* gcs_bucket_resource.py lines 118-126: what download_file can do to the
\* local path. A blob that does not exist raises before the path is touched.
\* blob.download_to_filename opens the path for writing and streams into it:
\* it can complete, fail before the file is opened, or fail part-way and
\* leave behind what it had written (it removes the file only on a checksum
\* mismatch or a 404).
DownloadFile(blob) ==
    IF ~blob.exists THEN {[ok |-> FALSE, file |-> NoFile]}
    ELSE {[ok |-> TRUE, file |-> blob], [ok |-> FALSE, file |-> NoFile]}
         \cup {[ok |-> FALSE, file |-> FileOf(SubSeq(blob.rows, 1, k))] :
                  k \in 0..(IF blob.rows = <<>> THEN 0 ELSE Len(blob.rows) - 1)}

\* assets.py lines 122-141: read the batch file, download the archived
\* master when there is no local copy, append the batch rows to the master
\* file
MasterDailyMerge(r) ==
    /\ Ready(r, Append_)
    /\ LET p == run[r].partition
           readable == batchFile[p].exists
           fetches == IF ~readable THEN {[ok |-> FALSE, file |-> masterFile]}
                      ELSE IF masterFile.exists THEN {[ok |-> TRUE, file |-> masterFile]}
                      ELSE DownloadFile(gcsMaster)
       IN  \E fetched \in fetches :
             /\ masterFile' = IF fetched.ok
                              THEN FileOf(AppendRows(fetched.file.rows, batchFile[p].rows))
                              ELSE fetched.file
             /\ run' = [run EXCEPT ![r].st = StepEnds(r, Append_, IF fetched.ok THEN "ok"
                                                                   ELSE "failed")]
             /\ consumed' = IF fetched.ok
                            THEN [consumed EXCEPT ![p].appended = consumed[p].appended + 1]
                            ELSE consumed
    /\ UNCHANGED <<batchFile, gcsDaily, gcsMaster, bqMaster, staging, embeddings, lastLoad>>

\* assets.py lines 156-172: upload the master file over the archived copy
MasterArchive(r) ==
    /\ Ready(r, Archive)
    /\ \E upload_ok \in BOOLEAN :
         LET ok == masterFile.exists /\ upload_ok
         IN  /\ gcsMaster' = IF ok THEN masterFile ELSE gcsMaster
             /\ run' = [run EXCEPT ![r].st = StepEnds(r, Archive, IF ok THEN "ok" ELSE "failed")]
    /\ UNCHANGED <<batchFile, gcsDaily, masterFile, bqMaster, staging, embeddings, lastLoad,
                   consumed>>

\* Keep the first row of each id_norma.
DedupeKeepFirst(rows) ==
    LET kept == {k \in 1..Len(rows) :
                    \A j \in 1..(k - 1) : rows[j].id_norma # rows[k].id_norma}
        RECURSIVE Take(_)
        Take(k) == IF k > Len(rows) THEN <<>>
                   ELSE IF k \in kept THEN <<rows[k]>> \o Take(k + 1) ELSE Take(k + 1)
    IN  Take(1)

\* assets.py line 186: .unique(subset=["id_norma"], keep="last")
Dedupe(rows) ==
    LET kept == {k \in 1..Len(rows) :
                    \A j \in (k + 1)..Len(rows) : rows[j].id_norma # rows[k].id_norma}
        RECURSIVE Take(_)
        Take(k) == IF k > Len(rows) THEN <<>>
                   ELSE IF k \in kept THEN <<rows[k]>> \o Take(k + 1) ELSE Take(k + 1)
    IN  Take(1)

\* assets.py lines 203-206: the LoadJobConfig of master_to_bigquery names no
\* write_disposition, and a BigQuery load job then appends to the table
MasterWriteDisposition == "WRITE_APPEND"

\* A load of the batch that replaces the table.
DailyWriteDispositionTruncate == "WRITE_TRUNCATE"

\* assets.py line 252
DailyWriteDisposition == "WRITE_APPEND"

\* A load that leaves out the rows the table already holds.
LoadTableSkipHeld(table, rows, disposition) ==
    IF disposition = "WRITE_TRUNCATE" THEN TableOf(rows)
    ELSE [row \in Rows |-> IF table[row] > 0 THEN table[row] ELSE TableOf(rows)[row]]

\* client.load_table_from_file(...).result(): the table after a successful load
LoadTable(table, rows, disposition) ==
    IF disposition = "WRITE_TRUNCATE" THEN TableOf(rows)
    ELSE [row \in Rows |-> table[row] + TableOf(rows)[row]]

\* A dedupe whose result is written back over the master file.
MasterFileRewritten(file, df) == IF file.exists THEN FileOf(df) ELSE file

\* assets.py lines 180-198: the master file is scanned, and the deduplicated
\* frame is written to an in-memory stream: the file is left as it was read
MasterFileAfterDedupe(file, df) == file

\* assets.py lines 180-212: read the master file, dedupe, load the master table
MasterToBigquery(r) ==
    /\ Ready(r, MasterLoad)
    /\ \E job_ok \in BOOLEAN :
         LET ok == masterFile.exists /\ job_ok
             df == Dedupe(masterFile.rows)
         IN  /\ bqMaster' = IF ok THEN LoadTable(bqMaster, df, MasterWriteDisposition)
                            ELSE bqMaster
             /\ lastLoad' = IF ok THEN [n |-> lastLoad.n + 1, source |-> masterFile.rows,
                                        snapshot |-> df]
                            ELSE lastLoad
             /\ masterFile' = MasterFileAfterDedupe(masterFile, df)
             /\ run' = [run EXCEPT ![r].st = StepEnds(r, MasterLoad, IF ok THEN "ok" ELSE "failed")]
    /\ UNCHANGED <<batchFile, gcsDaily, gcsMaster, staging, embeddings, consumed>>

\* assets.py lines 230-257: load the partition's batch file into staging
DailyToBigquery(r) ==
    /\ Ready(r, DailyLoad)
    /\ \E job_ok \in BOOLEAN :
         LET p == run[r].partition
             ok == batchFile[p].exists /\ job_ok
         IN  /\ staging' = IF ok THEN LoadTable(staging, batchFile[p].rows, DailyWriteDisposition)
                           ELSE staging
             /\ run' = [run EXCEPT ![r].st = StepEnds(r, DailyLoad, IF ok THEN "ok" ELSE "failed")]
             /\ consumed' = IF ok
                            THEN [consumed EXCEPT ![p].loaded = consumed[p].loaded + 1]
                            ELSE consumed
    /\ UNCHANGED <<batchFile, gcsDaily, masterFile, gcsMaster, bqMaster, embeddings, lastLoad>>

\* assets.py lines 379-390: the staging rows whose generated embedding is not
\* empty; empty is the set of id_norma for which the model returned nothing
GeneratedEmbeddings(stg, empty) ==
    [row \in Rows |-> IF row.id_norma \in empty THEN 0 ELSE stg[row]]

\* assets.py lines 392-406: the MERGE statement. A target row matched by
\* more than one source row makes the statement fail; a matched target row
\* takes the source row's content and title; a source row that matches no
\* target row is inserted.
MergeInto(target, source) ==
    LET ambiguous == \E id \in PipelineIds :
                        CountOfId(target, id) >= 1 /\ CountOfId(source, id) >= 2
        table == [row \in Rows |->
                    IF CountOfId(target, row.id_norma) = 0 THEN source[row]
                    ELSE IF CountOfId(source, row.id_norma) = 0 THEN target[row]
                    ELSE IF source[row] >= 1 THEN CountOfId(target, row.id_norma)
                    ELSE 0]
    IN  [ok |-> ~ambiguous, table |-> IF ambiguous THEN target ELSE table]

\* A cleanup that runs whether or not the MERGE succeeded.
StagingAfterFailedMergeCleared(stg) == EmptyTable

\* assets.py lines 410-417: job.result() raises on a failed MERGE and the
\* TRUNCATE below it is not reached
StagingAfterFailedMerge(stg) == stg

\* assets.py lines 410-413: the MERGE job of master_daily_embeddings_merge
EmbeddingsMerge(r) ==
    /\ Ready(r, EmbMerge)
    /\ \E job_ok \in BOOLEAN, empty \in SUBSET PipelineIds :
         LET merged == MergeInto(embeddings, GeneratedEmbeddings(staging, empty))
             ok == job_ok /\ merged.ok
         IN  /\ embeddings' = IF ok THEN merged.table ELSE embeddings
             /\ staging' = IF ok THEN staging ELSE StagingAfterFailedMerge(staging)
             /\ run' = [run EXCEPT ![r].st = StepEnds(r, EmbMerge, IF ok THEN "merged" ELSE "failed"),
                                   ![r].merged = IF ok THEN "ok" ELSE "failed",
                                   ![r].read = IF ok THEN staging ELSE run[r].read]
    /\ UNCHANGED <<batchFile, gcsDaily, masterFile, gcsMaster, bqMaster, lastLoad, consumed>>

\* assets.py lines 415-418: the TRUNCATE job that follows a successful MERGE
EmbeddingsTruncate(r) ==
    /\ run[r].state = "started"
    /\ run[r].st[EmbMerge] = "merged"
    /\ \E job_ok \in BOOLEAN :
         /\ staging' = IF job_ok THEN EmptyTable ELSE staging
         /\ run' = [run EXCEPT ![r].st = StepEnds(r, EmbMerge, IF job_ok THEN "ok" ELSE "failed"),
                               ![r].truncated = job_ok]
    /\ UNCHANGED <<batchFile, gcsDaily, masterFile, gcsMaster, bqMaster, embeddings, lastLoad,
                   consumed>>

\* every step of run r has ended
Finished(r) ==
    /\ run[r].state = "started"
    /\ \A a \in Assets : run[r].st[a] \notin {"pending", "merged"}

\* a run is launched for a partition: by daily_schedule (kind "job", the
\* selection of infoleg_scraper_job) or by hand over all the assets. One run
\* is active at a time (one trigger per business day); runs are numbered in
\* the order they start and partitions in the order they are first run; the
\* records of the runs that have finished are dropped.
StartRun(r) ==
    /\ run[r].state = "new"
    /\ r > 1 => Finished(r - 1)
    /\ \E kind \in {"job", "full"}, p \in Partitions :
         /\ \A q \in 1..(p - 1) : \E o \in 1..(r - 1) : run[o].partition = q
         /\ run' = [o \in DOMAIN run |->
                     IF o = r
                     THEN [NewRun EXCEPT !.state = "started", !.kind = kind, !.partition = p,
                                         !.st = [a \in Assets |->
                                                   IF a \in Selection(kind) THEN "pending"
                                                   ELSE "unselected"]]
                     ELSE IF Finished(o)
                     THEN [NewRun EXCEPT !.state = "over", !.partition = run[o].partition]
                     ELSE run[o]]
    /\ UNCHANGED <<batchFile, gcsDaily, masterFile, gcsMaster, bqMaster, staging,
                   embeddings, lastLoad, consumed>>

\* the append and archive stages are run again, by hand, for partition 1
StartMergeRun(r) ==
    /\ run[r].state = "new"
    /\ r > 1 => Finished(r - 1)
    /\ run' = [o \in DOMAIN run |->
                IF o = r
                THEN [NewRun EXCEPT !.state = "started", !.kind = "merge", !.partition = 1,
                                    !.st = [a \in Assets |->
                                              IF a \in Selection("merge") THEN "pending"
                                              ELSE "unselected"]]
                ELSE IF Finished(o)
                THEN [NewRun EXCEPT !.state = "over", !.partition = run[o].partition]
                ELSE run[o]]
    /\ UNCHANGED <<batchFile, gcsDaily, masterFile, gcsMaster, bqMaster, staging,
                   embeddings, lastLoad, consumed>>

\* the two warehouse loads are run by hand for a partition whose batch file
\* is in /tmp; nothing keeps such runs, of the same or of different
\* partitions, from being in progress together
StartStagingRun(r) ==
    /\ run[r].state = "new"
    /\ \E p \in Partitions :
         run' = [run EXCEPT ![r] =
                    [NewRun EXCEPT !.state = "started", !.kind = "staging", !.partition = p,
                                   !.st = [a \in Assets |->
                                             IF a \in Selection("staging") THEN "pending"
                                             ELSE "unselected"]]]
    /\ UNCHANGED <<batchFile, gcsDaily, masterFile, gcsMaster, bqMaster, staging,
                   embeddings, lastLoad, consumed>>

\* master files the deployment can start from: only the header, or one row
InitialMasters ==
    {<<>>, <<[id_norma |-> 1, titulo_resumido |-> "t1"]>>}

\* a fresh deployment: the archived master, maybe a local copy of it, empty
\* warehouse tables, no run yet
PipeStart ==
    /\ batchFile = [p \in Partitions |-> NoFile]
    /\ gcsDaily = [p \in Partitions |-> NoFile]
    /\ gcsMaster \in {NoFile} \cup {FileOf(m) : m \in InitialMasters}
    /\ masterFile \in {NoFile, gcsMaster}
    /\ bqMaster = EmptyTable
    /\ staging = EmptyTable
    /\ embeddings = EmptyTable
    /\ run = [r \in RunIds |-> NewRun]
    /\ lastLoad = [n |-> 0, source |-> <<>>, snapshot |-> <<>>]
    /\ consumed = NotConsumed

\* what an earlier run of partition 1 can have left in /tmp
PriorBatches == {NoFile, FileOf(<<[id_norma |-> 1, titulo_resumido |-> "t1"]>>)}

\* the state one run starts from: as PipeStart, or after an earlier run of
\* the scheduled job for the same partition whose batch was uploaded and is
\* either still in staging or already merged and truncated
RunStart ==
    /\ \E prior \in PriorBatches :
          /\ batchFile = [p \in Partitions |-> IF p = 1 THEN prior ELSE NoFile]
          /\ gcsDaily = batchFile
          /\ staging \in {EmptyTable, TableOf(prior.rows)}
          /\ embeddings = IF prior.exists /\ staging = EmptyTable
                          THEN TableOf(prior.rows) ELSE EmptyTable
          /\ consumed = [NotConsumed EXCEPT ![1].loaded = IF prior.exists THEN 1 ELSE 0]
    /\ gcsMaster \in {NoFile} \cup {FileOf(m) : m \in InitialMasters}
    /\ masterFile \in {NoFile, gcsMaster}
    /\ bqMaster = EmptyTable
    /\ run = [r \in {1} |-> NewRun]
    /\ lastLoad = [n |-> 0, source |-> <<>>, snapshot |-> <<>>]

\* Longest master file the dedupe is given.
MaxMaster == 3

\* a run that materializes master_to_bigquery alone, about to start its
\* step, over any master file of up to MaxMaster rows
DedupeStart ==
    /\ batchFile = [p \in Partitions |-> NoFile]
    /\ gcsDaily = [p \in Partitions |-> NoFile]
    /\ masterFile \in {FileOf(m) : m \in SeqsUpTo(Rows, MaxMaster)}
    /\ gcsMaster = masterFile
    /\ bqMaster = EmptyTable
    /\ staging = EmptyTable
    /\ embeddings = EmptyTable
    /\ run = [r \in {1} |->
                [NewRun EXCEPT !.state = "started", !.kind = "full",
                               !.st = [a \in Assets |-> IF a = MasterLoad THEN "pending"
                                                        ELSE "unselected"]]]
    /\ lastLoad = [n |-> 0, source |-> <<>>, snapshot |-> <<>>]
    /\ consumed = NotConsumed

\* the batch files a scrape can leave: no id_norma twice
BatchFiles ==
    {b \in SeqsUpTo(Rows, MaxBatch) :
        \A j, k \in 1..Len(b) : j # k => b[j].id_norma # b[k].id_norma}

\* the batch of partition 1 is in /tmp and uploaded, the master is archived
\* and maybe present locally, and the append and archive stages are about to
\* be run for that partition
MergeStart ==
    /\ \E b \in BatchFiles :
          /\ batchFile = [p \in Partitions |-> IF p = 1 THEN FileOf(b) ELSE NoFile]
          /\ gcsDaily = batchFile
    /\ gcsMaster \in {NoFile} \cup {FileOf(m) : m \in SeqsUpTo(Rows, MaxBatch)}
    /\ masterFile \in {NoFile, gcsMaster}
    /\ bqMaster = EmptyTable
    /\ staging = EmptyTable
    /\ embeddings = EmptyTable
    /\ run = [r \in RunIds |-> NewRun]
    /\ lastLoad = [n |-> 0, source |-> <<>>, snapshot |-> <<>>]
    /\ consumed = NotConsumed

\* every partition has its batch in /tmp and uploaded; the warehouse tables
\* are empty
StagingStart ==
    /\ batchFile \in [Partitions -> {FileOf(b) : b \in BatchFiles}]
    /\ gcsDaily = batchFile
    /\ gcsMaster = NoFile
    /\ masterFile = NoFile
    /\ bqMaster = EmptyTable
    /\ staging = EmptyTable
    /\ embeddings = EmptyTable
    /\ run = [r \in RunIds |-> NewRun]
    /\ lastLoad = [n |-> 0, source |-> <<>>, snapshot |-> <<>>]
    /\ consumed = NotConsumed

-----------------------------------------------------------------------------
(* daily_partitions (defs/assets.py) and daily_schedule (definitions.py) *)

\* Number of days the calendar is followed past the start date.
MaxDays == 10

\* cron numbers the days of the week from 0 = Sunday to 6 = Saturday
CronDow(d) == (start_dow + d) % 7

\* a day-of-week field of a cron string matches a date; 7 is Sunday, as 0 is
CronMatchesDow(field, d) == field % 7 = CronDow(d)

\* A numbering of the week that starts at 0 = Monday.
ExclusionFieldsMondayZero == {5, 6}

\* assets.py line 45: exclusions=["* * * * 6", "* * * * 7"]
ExclusionFields == {6, 7}

\* a date whose midnight matches one of the exclusions has no partition
Excluded(d) == \E field \in ExclusionFields : CronMatchesDow(field, d)

\* assets.py lines 42-46: the partition keys that exist on the current date:
\* one per day from the start date whose time window has ended (end_offset
\* is left at 0), the excluded days left out
PartitionKeys == {d \in 0..(day - 1) : ~Excluded(d)}

\* definitions.py line 73: cron_schedule="10 7 * * 1-5"
ScheduleFields == 1..5

\* the deployment on its start date, before 07:10
CalendarStart ==
    /\ start_dow \in 0..6
    /\ day = 0
    /\ phase = "early"
    /\ ticks = {}

\* 07:10 local time passes; daily_schedule fires if the date matches its cron
SevenTen ==
    /\ phase = "early"
    /\ phase' = "late"
    /\ ticks' = IF \E field \in ScheduleFields : CronMatchesDow(field, day)
                THEN ticks \cup {day} ELSE ticks
    /\ UNCHANGED <<start_dow, day, scrapeVars, pipeVars, dateVars, pageVars, chatVars>>

\* midnight passes: the time window of the current date ends
Midnight ==
    /\ phase = "late"
    /\ day < MaxDays
    /\ day' = day + 1
    /\ phase' = "early"
    /\ UNCHANGED <<start_dow, ticks, scrapeVars, pipeVars, dateVars, pageVars, chatVars>>

\* the calendar is not modelled
CalIdle ==
    /\ start_dow = 0
    /\ day = 0
    /\ phase = "early"
    /\ ticks = {}

-----------------------------------------------------------------------------
(* The /chat handler and the usage tracker (src/website/src) *)

\* Number of /chat requests one client identity sends in the day.
MaxRequests == 3

\* config.USAGE_DAILY_LIMIT, read from the environment.
USAGE_DAILY_LIMIT == 3

Requests == 1..MaxRequests

\* a request that has not reached the handler yet
NewRequest == [pc |-> "new", current |-> 0]

\* routes.py line 51
AtLimit(current, limit) == current >= (limit - 1)

\* routes.py lines 41-55: the handler is entered; with DEBUG off it awaits
\* get_today_count (tracking.py lines 65-78: one SELECT under the lock; an
\* exception is logged and the count taken as 0) and redirects to /signup
\* when the count it read is at the limit
ChatRead(q) ==
    /\ req[q].pc = "new"
    /\ IF debug
       THEN /\ req' = [req EXCEPT ![q].pc = "invoke"]
            /\ UNCHANGED failed
       ELSE \E read_ok \in BOOLEAN :
              LET current == IF read_ok THEN usage ELSE 0
              IN  /\ req' = [req EXCEPT ![q].current = current,
                                        ![q].pc = IF AtLimit(current, USAGE_DAILY_LIMIT)
                                                  THEN "redirected" ELSE "increment"]
                  /\ failed' = [failed EXCEPT !.read = failed.read \/ ~read_ok]
    /\ UNCHANGED <<debug, usage, invoked, scrapeVars, pipeVars, dateVars, calVars, pageVars>>

\* routes.py lines 56-59: the handler awaits increment (tracking.py lines
\* 80-127: one UPSERT under the lock, count = count + 1); an exception is
\* logged and the request goes on
ChatIncrement(q) ==
    /\ req[q].pc = "increment"
    /\ \E inc_ok \in BOOLEAN :
         /\ usage' = IF inc_ok THEN usage + 1 ELSE usage
         /\ failed' = [failed EXCEPT !.inc = failed.inc \/ ~inc_ok]
    /\ req' = [req EXCEPT ![q].pc = "invoke"]
    /\ UNCHANGED <<debug, invoked, scrapeVars, pipeVars, dateVars, calVars, pageVars>>

\* routes.py lines 63-73: the agent is invoked and the answer returned
ChatInvoke(q) ==
    /\ req[q].pc = "invoke"
    /\ invoked' = invoked + 1
    /\ req' = [req EXCEPT ![q].pc = "done"]
    /\ UNCHANGED <<debug, usage, failed, scrapeVars, pipeVars, dateVars, calVars, pageVars>>

\* the start of a day: no row of usage_events for the identity, no request yet
ChatStart ==
    /\ debug \in BOOLEAN
    /\ usage = 0
    /\ req = [q \in Requests |-> NewRequest]
    /\ invoked = 0
    /\ failed = [read |-> FALSE, inc |-> FALSE]

\* the website is not modelled
ChatIdle ==
    /\ debug = FALSE
    /\ usage = 0
    /\ req = [q \in Requests |-> NewRequest]
    /\ invoked = 0
    /\ failed = [read |-> FALSE, inc |-> FALSE]

-----------------------------------------------------------------------------
(* Specifications *)

\* the scraper's variables while the pipeline is modelled stage by stage
ScrapeIdle ==
    /\ resp = [kind |-> "ok", links |-> <<>>, marker |-> TRUE]
    /\ batch_size = 1
    /\ daily_scrape_count = 1
    /\ pc = "idle"
    /\ all_norma_ids = <<>>
    /\ i = 0
    /\ tasks = <<>>
    /\ inflight = {}
    /\ results = <<>>
    /\ csvfile = <<>>
    /\ total_scraped = 0
    /\ groups = <<>>
    /\ sleeps = 0
    /\ arrival = <<>>
    /\ succeeded = [id \in Ids |-> "unfetched"]
    /\ overtaken = FALSE
    /\ attempt = 1
    /\ answers = [id \in Ids |-> Unfetched]
    /\ firstRun = NotYetRun

\* the pipeline's variables while one scrape_by_date is modelled step by step
PipeIdle ==
    /\ batchFile = [p \in Partitions |-> NoFile]
    /\ gcsDaily = [p \in Partitions |-> NoFile]
    /\ gcsMaster = NoFile
    /\ masterFile = NoFile
    /\ bqMaster = EmptyTable
    /\ staging = EmptyTable
    /\ embeddings = EmptyTable
    /\ run = [r \in RunIds |-> NewRun]
    /\ lastLoad = [n |-> 0, source |-> <<>>, snapshot |-> <<>>]
    /\ consumed = NotConsumed

InitScrape == ScrapeStart /\ PipeIdle /\ DateIdle /\ CalIdle /\ PageIdle /\ ChatIdle

NextScrape ==
    \/ Search
    \/ LoopAppend
    \/ FetchComplete
    \/ FetchHangs
    \/ FetchTimesOut
    \/ GatherReturn
    \/ Sleep
    \/ LoopEnd
    \/ FinalReturn

SpecScrape == InitScrape /\ [][NextScrape]_vars

\* scrape_by_date on an event loop that runs every coroutine that can go on,
\* against a server whose every request is answered or times out. No
\* fairness is asked of FetchHangs: a server need not hang.
SpecScrapeFair ==
    /\ InitScrape
    /\ [][NextScrape]_vars
    /\ WF_vars(Search)
    /\ WF_vars(LoopAppend)
    /\ WF_vars(FetchComplete)
    /\ WF_vars(FetchTimesOut)
    /\ WF_vars(GatherReturn)
    /\ WF_vars(Sleep)
    /\ WF_vars(LoopEnd)
    /\ WF_vars(FinalReturn)

\* scrape_by_date run for a date and then run again for the same date
NextRerun ==
    \/ NextScrape
    \/ Rerun

SpecRerun == InitScrape /\ [][NextRerun]_vars

Init == PipeStart /\ ScrapeIdle /\ DateIdle /\ CalIdle /\ PageIdle /\ ChatIdle

Next ==
    \/ \E r \in DOMAIN run : StartRun(r) /\ UNCHANGED offPipeVars
    \/ \E r \in DOMAIN run : ScrapeStage(r) /\ UNCHANGED offPipeVars
    \/ \E r \in DOMAIN run : MasterDailyMerge(r) /\ UNCHANGED offPipeVars
    \/ \E r \in DOMAIN run : MasterArchive(r) /\ UNCHANGED offPipeVars
    \/ \E r \in DOMAIN run : MasterToBigquery(r) /\ UNCHANGED offPipeVars
    \/ \E r \in DOMAIN run : DailyToBigquery(r) /\ UNCHANGED offPipeVars
    \/ \E r \in DOMAIN run : EmbeddingsMerge(r) /\ UNCHANGED offPipeVars
    \/ \E r \in DOMAIN run : EmbeddingsTruncate(r) /\ UNCHANGED offPipeVars

Spec == Init /\ [][Next]_vars

\* one run of the job or of all the assets
InitRun == RunStart /\ ScrapeIdle /\ DateIdle /\ CalIdle /\ PageIdle /\ ChatIdle

SpecRun == InitRun /\ [][Next]_vars

\* master_to_bigquery over every master file
InitDedupe == DedupeStart /\ ScrapeIdle /\ DateIdle /\ CalIdle /\ PageIdle /\ ChatIdle

NextDedupe == \E r \in DOMAIN run : MasterToBigquery(r) /\ UNCHANGED offPipeVars

SpecDedupe == InitDedupe /\ [][NextDedupe]_vars

\* the append and archive stages run again and again over the same batch
InitMerge == MergeStart /\ ScrapeIdle /\ DateIdle /\ CalIdle /\ PageIdle /\ ChatIdle

NextMerge ==
    \/ \E r \in DOMAIN run : StartMergeRun(r) /\ UNCHANGED offPipeVars
    \/ \E r \in DOMAIN run : MasterDailyMerge(r) /\ UNCHANGED offPipeVars
    \/ \E r \in DOMAIN run : MasterArchive(r) /\ UNCHANGED offPipeVars

SpecMerge == InitMerge /\ [][NextMerge]_vars

\* runs of daily_to_bigquery and master_daily_embeddings_merge in progress
\* together
InitStaging == StagingStart /\ ScrapeIdle /\ DateIdle /\ CalIdle /\ PageIdle /\ ChatIdle

NextStaging ==
    \/ \E r \in DOMAIN run : StartStagingRun(r) /\ UNCHANGED offPipeVars
    \/ \E r \in DOMAIN run : DailyToBigquery(r) /\ UNCHANGED offPipeVars
    \/ \E r \in DOMAIN run : EmbeddingsMerge(r) /\ UNCHANGED offPipeVars
    \/ \E r \in DOMAIN run : EmbeddingsTruncate(r) /\ UNCHANGED offPipeVars

SpecStaging == InitStaging /\ [][NextStaging]_vars

\* convert_date_format over every date string
InitDate == DateStart /\ ScrapeIdle /\ PipeIdle /\ CalIdle /\ PageIdle /\ ChatIdle

NextDate == ConvertDate

SpecDate == InitDate /\ [][NextDate]_vars

\* the calendar from the start date on
InitCalendar == CalendarStart /\ ScrapeIdle /\ PipeIdle /\ DateIdle /\ PageIdle /\ ChatIdle

NextCalendar ==
    \/ SevenTen
    \/ Midnight

SpecCalendar == InitCalendar /\ [][NextCalendar]_vars

\* the date fields of a record, over pages with every date text
InitFechas == FechasStart /\ ScrapeIdle /\ PipeIdle /\ DateIdle /\ CalIdle /\ ChatIdle

NextPage == ParsePage

SpecFechas == InitFechas /\ [][NextPage]_vars

\* the summary field of a record, over pages with every summary text
InitResumen == ResumenStart /\ ScrapeIdle /\ PipeIdle /\ DateIdle /\ CalIdle /\ ChatIdle

SpecResumen == InitResumen /\ [][NextPage]_vars

\* the /chat requests of one client identity during one day, in progress
\* together
InitChat == ChatStart /\ ScrapeIdle /\ PipeIdle /\ DateIdle /\ CalIdle /\ PageIdle

NextChat ==
    \/ \E q \in Requests : ChatRead(q)
    \/ \E q \in Requests : ChatIncrement(q)
    \/ \E q \in Requests : ChatInvoke(q)

SpecChat == InitChat /\ [][NextChat]_vars


-----------------------------------------------------------------------------
(* Properties of the scraper, checked under SpecScrape *)

IdsOf(rows) == [k \in 1..Len(rows) |-> rows[k].id_norma]

RowCount(id) == Cardinality({k \in 1..Len(csvfile) : csvfile[k].id_norma = id})

RECURSIVE Flatten(_)
Flatten(gs) == IF gs = <<>> THEN <<>> ELSE Head(gs) \o Flatten(Tail(gs))

Ceil(n, w) == (n + w - 1) \div w

Succeeded(id) == succeeded[id] = "yes"

\* the groups whose gather has returned and whose rows have been written
WrittenGroups ==
    IF pc \in {"gather", "final_gather"} THEN Len(groups) - 1 ELSE Len(groups)

\* the search answered 200 with no norma link and without the "no results" text
UnexpectedEmpty == resp.kind = "ok" /\ NormaIds(resp.links) = <<>> /\ ~resp.marker

\* C1: once search_boletines has returned for a 200 response that has no
\* norma identifier and no "no results" marker, its caller has received an
\* error (scrape_by_date is not carrying on with an empty list).
C1_UnexpectedEmptyRaises ==
    (pc # "start" /\ UnexpectedEmpty) => pc = "raised"

\* C6: an identifier whose fetch or extraction failed has no row at all (no
\* partial record), every identifier of a written group that succeeded has
\* its row whatever happened to the others of its group, and a finished run
\* has fetched every identifier of every group.
C6_FailureIsolated ==
    /\ \A id \in Ids : succeeded[id] = "no" => RowCount(id) = 0
    /\ \A g \in 1..WrittenGroups : \A k \in 1..Len(groups[g]) :
          Succeeded(groups[g][k]) => RowCount(groups[g][k]) = 1
    /\ pc = "done" =>
          \A k \in 1..Len(all_norma_ids) : succeeded[all_norma_ids[k]] # "unfetched"

\* C6 witness: a finished run in which a group held a failed identifier and
\* a successful one, the successful one was written, and a later group ran.
C6_Witness ==
    /\ pc = "done"
    /\ Len(groups) >= 2
    /\ \E a, b \in 1..Len(groups[1]) :
          /\ succeeded[groups[1][a]] = "no"
          /\ Succeeded(groups[1][b])
          /\ RowCount(groups[1][b]) = 1
    /\ Succeeded(groups[2][1])
    /\ RowCount(groups[2][1]) = 1

\* C7: for n >= 1 identifiers and width W >= 1 a finished run has issued
\* exactly ceil(n/W) groups of consecutive identifiers, all of size W except
\* possibly the last, and has slept exactly ceil(n/W) - 1 times; at any time
\* the sleeps are one per issued group but the last one issued, and a sleep
\* after the last issued group is one that a further group is still to follow.
C7_GroupsAndSleeps ==
    LET n == Len(all_norma_ids)
        W == batch_size
    IN  /\ (pc = "done" /\ n >= 1) =>
              /\ Len(groups) = Ceil(n, W)
              /\ Flatten(groups) = all_norma_ids
              /\ \A g \in 1..Len(groups) - 1 : Len(groups[g]) = W
              /\ Len(groups[Len(groups)]) \in 1..W
              /\ sleeps = Ceil(n, W) - 1
        /\ pc \in {"gather", "final_gather", "done"} /\ groups # <<>> =>
              sleeps = Len(groups) - 1
        /\ sleeps <= Len(groups)
        /\ (sleeps = Len(groups) /\ groups # <<>>) =>
              (pc = "loop" /\ (i < n \/ tasks # <<>>))

\* C7 witness: a finished run over three identifiers with W = 1 (n a
\* multiple of W): three groups, two sleeps.
C7_Witness ==
    /\ pc = "done"
    /\ Len(all_norma_ids) = 3
    /\ batch_size = 1
    /\ Len(groups) = 3
    /\ sleeps = 2

\* C8: never more than W fetches in flight; while a group is in flight,
\* every fetch of the earlier groups has completed, exactly their successful
\* records are in the output, and one sleep per earlier group has elapsed.
C8_Barrier ==
    /\ Cardinality(inflight) <= batch_size
    /\ inflight # {} =>
          LET g == Len(groups)
              earlier == Flatten(SubSeq(groups, 1, g - 1))
          IN  /\ tasks = groups[g]
              /\ \A k \in 1..Len(earlier) : succeeded[earlier[k]] # "unfetched"
              /\ {csvfile[k].id_norma : k \in 1..Len(csvfile)}
                    = {earlier[k] : k \in {j \in 1..Len(earlier) : Succeeded(earlier[j])}}
              /\ Len(csvfile) = Cardinality({j \in 1..Len(earlier) : Succeeded(earlier[j])})
              /\ sleeps = g - 1

\* C8 witness: a full second group of W >= 1 fetches is in flight after a
\* first group in which one fetch failed and one succeeded.
C8_Witness ==
    /\ Len(groups) = 2
    /\ Cardinality(inflight) = Len(tasks)
    /\ inflight # {}
    /\ csvfile # <<>>
    /\ \E k \in 1..Len(groups[1]) : succeeded[groups[1][k]] = "no"
    /\ sleeps = 1

\* the identifiers of ids whose fetch and extraction succeeded, in order
SucceededIn(ids) == SelectSeq(ids, Succeeded)

\* C9: the output of a finished run holds one row for each identifier whose
\* fetch and extraction succeeded and none for the others, in the order of
\* the search result whatever the order of completion, and the returned
\* count is the number of rows written.
C9_OutputRows ==
    /\ total_scraped = Len(csvfile)
    /\ pc = "done" =>
          /\ IdsOf(csvfile) = SucceededIn(all_norma_ids)
          /\ \A id \in Ids : RowCount(id) = IF Succeeded(id) THEN 1 ELSE 0

\* C9 witness: three identifiers, the second one not found or failed, the
\* fetches completed out of order, two rows written in search order.
C9_Witness ==
    /\ pc = "done"
    /\ Len(all_norma_ids) = 3
    /\ succeeded[all_norma_ids[2]] = "no"
    /\ overtaken
    /\ IdsOf(csvfile) = <<all_norma_ids[1], all_norma_ids[3]>>
    /\ total_scraped = 2

-----------------------------------------------------------------------------
(* Properties of the pipeline, checked under Spec, SpecRun and SpecDedupe *)

Started(r) == run[r].state = "started"

\* C2: the TRUNCATE of an invocation of master_daily_embeddings_merge runs
\* only from the state its own MERGE left on success; a step in which the
\* MERGE fails changes no row of staging and leaves the invocation without a
\* truncate, then and ever after.
C2_TruncateOnlyAfterMerge ==
    [][\A r \in DOMAIN run :
          /\ (run'[r].truncated /\ ~run[r].truncated) =>
                (run[r].st[EmbMerge] = "merged" /\ run[r].merged = "ok")
          /\ (run'[r].merged = "failed" /\ run[r].merged # "failed") =>
                (staging' = staging /\ ~run'[r].truncated)
          /\ (run[r].merged = "failed" /\ Started(r) /\ run'[r].state = "started") =>
                (run'[r].merged = "failed" /\ ~run'[r].truncated /\ staging' = staging)
          /\ (staging' = EmptyTable /\ staging # EmptyTable) =>
                \E o \in DOMAIN run : run[o].merged = "ok" /\ run'[o].truncated]_vars

\* C2 witness: the MERGE of an invocation failed while staging held rows;
\* the rows are still there and nothing was truncated.
C2_Witness ==
    \E r \in DOMAIN run :
        /\ run[r].merged = "failed"
        /\ run[r].st[EmbMerge] = "failed"
        /\ ~run[r].truncated
        /\ TableSize(staging) > 0

\* C3: once master_to_bigquery has loaded, the warehouse master table holds
\* exactly the deduplicated snapshot that the latest execution read from the
\* master file, with nothing left of earlier loads.
C3_MasterTableIsSnapshot ==
    lastLoad.n > 0 => bqMaster = TableOf(Dedupe(lastLoad.source))

\* C4: a run of the scheduled job in which no step failed has executed the
\* fetch stage and the four stages of the merge pipeline.
C4_ScheduledRunRunsAllStages ==
    \A r \in DOMAIN run :
        (run[r].kind = "job" /\ Finished(r)
            /\ \A a \in Assets : run[r].st[a] \notin {"failed", "skipped"})
        => \A a \in {Scrape, Append_, Archive, MasterLoad, DailyLoad} : run[r].st[a] = "ok"

NotRun(r, a) == run[r].st[a] \in {"pending", "skipped", "unselected"}

\* C5: in every run the upload of the batch, the append to the master file
\* and the load into staging are reached only after the fetch has returned a
\* count above zero; a run whose count is zero has failed in the fetch stage
\* without uploading, none of its downstream stages runs, and no step taken
\* while it is the current run changes the uploaded batches, the master file
\* or the staging table.
C5_ZeroCountStopsRun ==
    /\ [](\A r \in DOMAIN run :
            /\ run[r].uploaded => run[r].count > 0
            /\ (~NotRun(r, Append_) \/ ~NotRun(r, DailyLoad)) =>
                  (run[r].st[Scrape] = "ok" /\ run[r].count > 0)
            /\ run[r].count = 0 =>
                  /\ run[r].st[Scrape] = "failed"
                  /\ ~run[r].uploaded
                  /\ \A a \in {Append_, Archive, DailyLoad, EmbMerge} :
                        run[r].st[a] \in {"skipped", "unselected"})
    /\ [][\A r \in DOMAIN run :
            run'[r].count = 0 =>
                (gcsDaily' = gcsDaily /\ masterFile' = masterFile /\ staging' = staging)]_vars

\* C5 witness: a run whose fetch returned zero records: failed, nothing
\* uploaded, the downstream stages skipped.
C5_Witness ==
    \E r \in DOMAIN run :
        /\ run[r].count = 0
        /\ run[r].kind = "full"
        /\ run[r].st[Scrape] = "failed"
        /\ run[r].st[Append_] = "skipped"
        /\ run[r].st[DailyLoad] = "skipped"
        /\ ~gcsDaily[run[r].partition].exists

\* positions of the rows of id in rows
Occurrences(rows, id) == {k \in 1..Len(rows) : rows[k].id_norma = id}

Last(S) == CHOOSE k \in S : \A j \in S : j <= k

\* C10: the snapshot that master_to_bigquery loads holds, for each id_norma
\* of the master file it read, exactly one row, the last one of that
\* id_norma in the file, and no row of any other id_norma.
C10_DedupeKeepsLast ==
    lastLoad.n > 0 =>
        \A id \in PipelineIds :
            LET inFile == Occurrences(lastLoad.source, id)
                inSnap == Occurrences(lastLoad.snapshot, id)
            IN  IF inFile = {} THEN inSnap = {}
                ELSE /\ Cardinality(inSnap) = 1
                     /\ lastLoad.snapshot[Last(inSnap)] = lastLoad.source[Last(inFile)]

\* C10 witness: the master file read held two rows of one id_norma with
\* different titles, and the snapshot holds the later one only.
C10_Witness ==
    /\ lastLoad.n > 0
    /\ \E j, k \in 1..Len(lastLoad.source) :
          /\ j < k
          /\ lastLoad.source[j].id_norma = lastLoad.source[k].id_norma
          /\ lastLoad.source[j].titulo_resumido # lastLoad.source[k].titulo_resumido
          /\ k = Last(Occurrences(lastLoad.source, lastLoad.source[k].id_norma))
          /\ \E m \in 1..Len(lastLoad.snapshot) : lastLoad.snapshot[m] = lastLoad.source[k]
          /\ \A m \in 1..Len(lastLoad.snapshot) : lastLoad.snapshot[m] # lastLoad.source[j]

\* rows ends with the rows of tail
EndsWith(rows, tail) ==
    /\ Len(tail) <= Len(rows)
    /\ SubSeq(rows, Len(rows) - Len(tail) + 1, Len(rows)) = tail

RowSet(rows) == {rows[k] : k \in 1..Len(rows)}

\* the master file a master_daily_merge works on: the local one, or the
\* archived one it downloads
Local == IF masterFile.exists THEN masterFile ELSE gcsMaster

AppendSucceeds(r) == run[r].st[Append_] = "pending" /\ run'[r].st[Append_] = "ok"

ArchiveSucceeds(r) == run[r].st[Archive] = "pending" /\ run'[r].st[Archive] = "ok"

\* C11: when the append stage runs over a master file that already ends with
\* the rows of the batch (the append has run before with the same batch), the
\* master file then holds those rows once more, and its rows deduplicated by
\* id_norma are the same set, of the same size, as before; the archive stage
\* that follows stores that very file.
C11_SecondAppendKeepsDedupedRows ==
    [][\A r \in DOMAIN run :
          /\ (AppendSucceeds(r) /\ EndsWith(Local.rows, batchFile[run[r].partition].rows)) =>
                LET B == batchFile[run[r].partition].rows
                    once == Local.rows
                    twice == masterFile'.rows
                IN  /\ twice = once \o B
                    /\ EndsWith(twice, B \o B)
                    /\ RowSet(Dedupe(twice)) = RowSet(Dedupe(once))
                    /\ Len(Dedupe(twice)) = Len(Dedupe(once))
          /\ ArchiveSucceeds(r) => (gcsMaster' = masterFile /\ masterFile' = masterFile)]_vars

\* C11 witness: the second run of the two stages has succeeded; the master
\* file, archived, ends with the batch rows twice and deduplicates to fewer
\* rows than it holds.
C11_Witness ==
    /\ run[1].state = "over"
    /\ run[2].st[Append_] = "ok"
    /\ run[2].st[Archive] = "ok"
    /\ batchFile[1].rows # <<>>
    /\ EndsWith(masterFile.rows, batchFile[1].rows \o batchFile[1].rows)
    /\ Len(masterFile.rows) >= 3
    /\ gcsMaster = masterFile
    /\ Len(Dedupe(masterFile.rows)) < Len(masterFile.rows)

\* C12: whatever the interleaving of daily_to_bigquery executions with a
\* master_daily_embeddings_merge execution, the TRUNCATE of that execution
\* removes from staging no row but those its MERGE has read.
C12_TruncateRemovesOnlyReadRows ==
    [][\A r \in DOMAIN run :
          (run'[r].truncated /\ ~run[r].truncated) =>
              \A row \in Rows : staging[row] <= run[r].read[row]]_vars

-----------------------------------------------------------------------------
(* Further properties of the scraper, checked under SpecScrape *)

SearchFailed == resp.kind \in {"httperr", "requesterr"}

\* C13: when the search request ends in a network error or an HTTP error
\* status, search_boletines returns the empty list and raises nothing:
\* scrape_by_date carries on with no identifier.
C13_SearchFailsClosed ==
    SearchFailed =>
        /\ SearchBoletines(resp) = [raised |-> FALSE, ids |-> <<>>]
        /\ pc # "raised"
        /\ pc # "start" => all_norma_ids = <<>>

\* C13 witness: the search answered with an HTTP error status and
\* scrape_by_date has run to its end with no identifier fetched.
C13_Witness ==
    /\ resp.kind = "httperr"
    /\ pc = "done"
    /\ all_norma_ids = <<>>
    /\ groups = <<>>
    /\ total_scraped = 0

\* position of the first link of the page that references id
FirstLink(links, id) == CHOOSE k \in 1..Len(links) : links[k] = id /\ \A j \in 1..(k - 1) : links[j] # id

\* C15: for a results page, search_boletines returns exactly the identifiers
\* that the page's norma links reference, none of them twice, in the order in
\* which they first appear on the page; scrape_by_date works on a prefix of
\* that list.
C15_SearchOrderedDeduplicated ==
    resp.kind = "ok" =>
        LET ids == SearchBoletines(resp).ids
        IN  /\ {ids[k] : k \in 1..Len(ids)} = {resp.links[k] : k \in 1..Len(resp.links)}
            /\ \A j, k \in 1..Len(ids) : j # k => ids[j] # ids[k]
            /\ \A j, k \in 1..Len(ids) :
                  j < k => FirstLink(resp.links, ids[j]) < FirstLink(resp.links, ids[k])
            /\ pc \notin {"start", "raised"} =>
                  /\ Len(all_norma_ids) <= Len(ids)
                  /\ all_norma_ids = SubSeq(ids, 1, Len(all_norma_ids))

\* C15 witness: the page linked one norma, then another, then the first one
\* again, and scrape_by_date holds the two identifiers in that order.
C15_Witness ==
    /\ resp.kind = "ok"
    /\ Len(resp.links) = 3
    /\ resp.links[1] = resp.links[3]
    /\ resp.links[1] # resp.links[2]
    /\ pc = "loop"
    /\ all_norma_ids = <<resp.links[1], resp.links[2]>>

Min(a, b) == IF a < b THEN a ELSE b

\* C16: in one run of scrape_by_date the identifiers handed to a fetch are
\* never more than daily_scrape_count and are always among the first
\* min(n, daily_scrape_count) of the n the search returned, in search order;
\* a finished run has fetched exactly those and no other.
C16_FetchedWithinCap ==
    LET ids == SearchBoletines(resp).ids
        m == Min(Len(ids), daily_scrape_count)
        issued == Flatten(groups)
    IN  /\ Len(issued) <= daily_scrape_count
        /\ Len(issued) <= m
        /\ issued = SubSeq(ids, 1, Len(issued))
        /\ \A id \in Ids : succeeded[id] # "unfetched" => \E k \in 1..m : ids[k] = id
        /\ pc = "done" =>
              /\ issued = SubSeq(ids, 1, m)
              /\ \A k \in 1..Len(ids) : (succeeded[ids[k]] # "unfetched") <=> (k <= m)

\* C16 witness: the search returned three identifiers, the cap is two, and
\* the finished run has fetched the first two and left the third alone.
C16_Witness ==
    /\ pc = "done"
    /\ Len(SearchBoletines(resp).ids) = 3
    /\ daily_scrape_count = 2
    /\ Flatten(groups) = SubSeq(SearchBoletines(resp).ids, 1, 2)
    /\ succeeded[SearchBoletines(resp).ids[3]] = "unfetched"
    /\ succeeded[SearchBoletines(resp).ids[2]] # "unfetched"

-----------------------------------------------------------------------------
(* Further properties of the pipeline *)

\* C14: a run whose date search ended in a network error or an HTTP error
\* status goes on with zero candidates, and its scrape stage does not end in
\* failure.
C14_SearchFailureDoesNotFailScrape ==
    \A r \in DOMAIN run :
        run[r].search \in {"httperr", "requesterr"} => run[r].st[Scrape] # "failed"

DailyLoadSucceeds(r) == run[r].st[DailyLoad] = "pending" /\ run'[r].st[DailyLoad] = "ok"

DailyLoadFails(r) == run[r].st[DailyLoad] = "pending" /\ run'[r].st[DailyLoad] = "failed"

\* C17: a successful daily_to_bigquery adds to staging exactly the rows of
\* the partition's batch file, as many times as the file holds them, and
\* changes no row staging already held, nor the master table,
\* master_embeddings, the master file or its archived copy; a failed one
\* changes nothing; and staging loses rows in no step but the TRUNCATE of
\* master_daily_embeddings_merge.
C17_DailyLoadAppendsOnly ==
    [][/\ \A r \in DOMAIN run :
            /\ DailyLoadSucceeds(r) =>
                  /\ \A row \in Rows :
                        staging'[row] = staging[row] + TableOf(batchFile[run[r].partition].rows)[row]
                  /\ TableSize(staging') = TableSize(staging) + Len(batchFile[run[r].partition].rows)
                  /\ UNCHANGED <<bqMaster, embeddings, masterFile, gcsMaster, batchFile, gcsDaily>>
            /\ DailyLoadFails(r) =>
                  UNCHANGED <<staging, bqMaster, embeddings, masterFile, gcsMaster>>
       /\ (\E row \in Rows : staging'[row] < staging[row]) =>
             /\ staging' = EmptyTable
             /\ \E r \in DOMAIN run : run[r].st[EmbMerge] = "merged" /\ run'[r].truncated]_vars

\* C17 witness: daily_to_bigquery has loaded a batch whose row staging held
\* already; staging holds the row twice, and master_embeddings is as it was.
C17_Witness ==
    \E r \in DOMAIN run :
        /\ run[r].st[DailyLoad] = "ok"
        /\ run[r].st[EmbMerge] = "pending"
        /\ batchFile[run[r].partition].rows # <<>>
        /\ staging[batchFile[run[r].partition].rows[1]] = 2
        /\ embeddings = EmptyTable

-----------------------------------------------------------------------------
(* Properties of the calendar, checked under SpecCalendar *)

\* Saturday is day 6 and Sunday day 0 of the week of start_dow
IsBusinessDay(d) == CronDow(d) \in 1..5

\* C18: every partition key is a Monday-to-Friday date on or after the start
\* date; no Saturday or Sunday has a partition; every Monday-to-Friday date
\* from the start date whose day has ended by now has one; and
\* daily_schedule has fired on Monday-to-Friday dates only.
C18_BusinessDayPartitions ==
    /\ \A k \in PartitionKeys : k >= 0 /\ k < day /\ IsBusinessDay(k)
    /\ \A d \in 0..MaxDays : ~IsBusinessDay(d) => d \notin PartitionKeys
    /\ \A d \in 0..(day - 1) : IsBusinessDay(d) => d \in PartitionKeys
    /\ \A d \in ticks : IsBusinessDay(d)

\* C18 witness: a whole week has gone by since the start date: five
\* partitions, none for its Saturday and its Sunday, and five schedule ticks.
C18_Witness ==
    /\ day = 7
    /\ phase = "early"
    /\ Cardinality(PartitionKeys) = 5
    /\ \E sat, sun \in 0..6 :
          /\ CronDow(sat) = 6 /\ sat \notin PartitionKeys
          /\ CronDow(sun) = 0 /\ sun \notin PartitionKeys
    /\ Cardinality(ticks) = 5

-----------------------------------------------------------------------------
(* Further properties of the merge pipeline *)

AppendFails(r) == run[r].st[Append_] = "pending" /\ run'[r].st[Append_] = "failed"

\* C19: a master_daily_merge that finds no local master file appends the
\* batch rows to the archived master it has downloaded; when it fails, the
\* download having failed, no local master file has been created.
C19_FailedDownloadLeavesNoFile ==
    [][\A r \in DOMAIN run :
          ~masterFile.exists =>
              /\ AppendSucceeds(r) =>
                    masterFile' = FileOf(gcsMaster.rows \o batchFile[run[r].partition].rows)
              /\ AppendFails(r) => ~masterFile'.exists]_vars

-----------------------------------------------------------------------------
(* Properties of convert_date_format, checked under SpecDate *)

\* the string is DD/MM/YYYY: two digits, two digits, four digits, slashes
\* between them and nothing else
ShapeSlash(s) ==
    /\ ~s.empty /\ s.lead = "" /\ s.tail = ""
    /\ s.sep1 = "/" /\ s.sep2 = "/"
    /\ IsDigits(s.d) /\ Len(s.d) = 2
    /\ IsDigits(s.m) /\ Len(s.m) = 2
    /\ IsDigits(s.y) /\ Len(s.y) = 4

\* the Spanish abbreviations, in capitals, and the number of their month
SpanishMonths ==
    [abbr \in {"ENE", "FEB", "MAR", "ABR", "MAY", "JUN", "JUL", "AGO", "SEP", "OCT",
               "NOV", "DIC"} |->
        CASE abbr = "ENE" -> 1 [] abbr = "FEB" -> 2 [] abbr = "MAR" -> 3 [] abbr = "ABR" -> 4
          [] abbr = "MAY" -> 5 [] abbr = "JUN" -> 6 [] abbr = "JUL" -> 7 [] abbr = "AGO" -> 8
          [] abbr = "SEP" -> 9 [] abbr = "OCT" -> 10 [] abbr = "NOV" -> 11 [] OTHER -> 12]

\* the abbreviation a month token spells, whatever its letter case
Spelled(tok) ==
    CASE tok \in {<<"E", "N", "E">>, <<"e", "n", "e">>} -> "ENE"
      [] tok = <<"F", "e", "b">> -> "FEB"
      [] tok = <<"a", "b", "r">> -> "ABR"
      [] tok = <<"D", "I", "C">> -> "DIC"
      [] tok = <<"J", "A", "N">> -> "JAN"
      [] OTHER -> "none"

\* the string is DD-MMM-YYYY with a Spanish abbreviation and nothing else
ShapeDash(s) ==
    /\ ~s.empty /\ s.lead = "" /\ s.tail = ""
    /\ s.sep1 = "-" /\ s.sep2 = "-"
    /\ IsDigits(s.d) /\ Len(s.d) = 2
    /\ s.m \in AlphaMonthTokens /\ Spelled(s.m) \in DOMAIN SpanishMonths
    /\ IsDigits(s.y) /\ Len(s.y) = 4

RealDate(y, m, d) == m \in 1..12 /\ d >= 1 /\ d <= DaysIn(m, y)

ValidSlash(s) == ShapeSlash(s) /\ RealDate(Value(s.y), Value(s.m), Value(s.d))

ValidDash(s) == ShapeDash(s) /\ RealDate(Value(s.y), SpanishMonths[Spelled(s.m)], Value(s.d))

\* the strings the property is stated for: no whitespace around the date,
\* and two digits for the day and the month of a date written with slashes
Plain(s) ==
    s.empty \/ (s.lead = "" /\ s.tail # " " /\ (s.sep1 = "/" => Len(s.d) = 2 /\ Len(s.m) = 2))

\* C20: for a valid DD/MM/YYYY date, and for a valid DD-MMM-YYYY date with a
\* Spanish abbreviation in any letter case, convert_date_format returns the
\* YYYY-MM-DD string of that date; for every other string (wrong shape,
\* unknown abbreviation, impossible day or month, trailing characters, the
\* empty string) it returns None.
C20_DateNormalizer ==
    (date_out # NotReturned /\ Plain(date_str)) =>
        IF ValidSlash(date_str)
        THEN date_out = DateString(date_str.y, date_str.m, date_str.d)
        ELSE IF ValidDash(date_str)
        THEN date_out = DateString(date_str.y, Pad2(SpanishMonths[Spelled(date_str.m)]),
                                   date_str.d)
        ELSE date_out = NoneDate

-----------------------------------------------------------------------------
(* Properties of a re-run of scrape_by_date, checked under SpecRerun *)

\* C21: a second execution of scrape_by_date for the same date, to which the
\* site gives the answers it gave to the first, ends as the first did and
\* leaves in the output file the rows the first left, in the same order and
\* with the same count: the file of the first execution is replaced, and no
\* row is added to it.
C21_RerunSameBatch ==
    (attempt = 2 /\ pc \in {"done", "raised"}) =>
        /\ pc = firstRun.pc
        /\ csvfile = firstRun.rows
        /\ total_scraped = firstRun.count

\* a re-run has ended over a first file of two rows or more, and in it some
\* page answered before a page requested earlier
C21_Witness ==
    /\ attempt = 2
    /\ pc = "done"
    /\ Len(firstRun.rows) >= 2
    /\ overtaken

-----------------------------------------------------------------------------
(* Properties of the consumption of a batch, checked under Spec *)

\* C22 as stated: over the runs and retries of a partition, its batch is
\* appended to the master file at most once and loaded into staging at most
\* once.
C22_ConsumedAtMostOnce ==
    \A p \in Partitions :
        /\ consumed[p].appended <= 1
        /\ consumed[p].loaded <= 1

\* C22 (amended): a batch is consumed once by each execution that succeeds,
\* not once over all of them. A successful master_daily_merge appends the rows
\* of the partition's batch file once at the end of the master file, a
\* successful daily_to_bigquery adds them once to staging, a failed one of
\* either consumes nothing, and nothing else consumes a batch.
C22_ConsumedOncePerExecution ==
    [][/\ \A r \in DOMAIN run :
            LET p == run[r].partition
                batch == batchFile[p].rows
                before == IF masterFile.exists THEN masterFile.rows ELSE gcsMaster.rows
            IN  /\ AppendSucceeds(r) =>
                      /\ consumed'[p].appended = consumed[p].appended + 1
                      /\ masterFile'.rows = before \o batch
                /\ DailyLoadSucceeds(r) =>
                      /\ consumed'[p].loaded = consumed[p].loaded + 1
                      /\ TableSize(staging') = TableSize(staging) + Len(batch)
                /\ (AppendFails(r) \/ DailyLoadFails(r)) => consumed' = consumed
       /\ consumed' # consumed =>
             \E r \in DOMAIN run : AppendSucceeds(r) \/ DailyLoadSucceeds(r)]_vars

\* a partition has been run and run again: its batch has been appended to
\* the master file twice and loaded into staging twice
C22_Witness ==
    \E p \in Partitions :
        /\ consumed[p].appended = 2
        /\ consumed[p].loaded = 2
        /\ batchFile[p].rows # <<>>

-----------------------------------------------------------------------------
(* Properties of the master file, checked under Spec *)

IsPrefix(a, b) == Len(a) <= Len(b) /\ SubSeq(b, 1, Len(a)) = a

StepEnded(r, a) == run[r].st[a] = "pending" /\ run'[r].st[a] \in {"ok", "failed"}

\* C23: in every step, a master file that exists still exists afterwards
\* and its rows then begin with the rows it held before, in the same order;
\* the file changes only in a step of master_daily_merge; and a step of
\* master_archive, master_to_bigquery or daily_to_bigquery leaves it exactly
\* as it was.
C23_MasterFileAppendOnly ==
    [][/\ masterFile.exists =>
             /\ masterFile'.exists
             /\ IsPrefix(masterFile.rows, masterFile'.rows)
       /\ masterFile' # masterFile => \E r \in DOMAIN run : StepEnded(r, Append_)
       /\ \A r \in DOMAIN run :
             (StepEnded(r, Archive) \/ StepEnded(r, MasterLoad) \/ StepEnded(r, DailyLoad))
                 => masterFile' = masterFile]_vars

\* the master file has been appended to, archived and loaded, and still
\* holds the two rows of one id_norma that the load deduplicated
C23_Witness ==
    /\ lastLoad.n >= 1
    /\ lastLoad.source = masterFile.rows
    /\ Len(lastLoad.snapshot) < Len(masterFile.rows)
    /\ gcsMaster = masterFile
    /\ \E p \in Partitions : consumed[p].appended >= 1

-----------------------------------------------------------------------------
(* Properties of master_daily_embeddings_merge, checked under SpecRun *)

\* C24: once master_daily_embeddings_merge has completed in a run (its MERGE
\* and its TRUNCATE have succeeded, no other run being in progress), every
\* id_norma of a row that staging held when the MERGE read it has a row in
\* master_embeddings, whether or not the model returned an embedding for it.
C24_EveryStagingRowMerged ==
    \A r \in DOMAIN run :
        (run[r].st[EmbMerge] = "ok" /\ run[r].truncated) =>
            \A id \in PipelineIds :
                CountOfId(run[r].read, id) > 0 => CountOfId(embeddings, id) > 0

-----------------------------------------------------------------------------
(* Properties of master_embeddings, checked under Spec *)

\* C25: whatever loads, merges and retries of partitions have taken place,
\* master_embeddings holds no more than one row of any id_norma.
C25_OneEmbeddingRowPerId ==
    \A id \in PipelineIds : CountOfId(embeddings, id) <= 1

-----------------------------------------------------------------------------
(* Properties of the order of the append and the load, checked under SpecRun *)

\* C26: in a run in which both master_daily_merge and master_to_bigquery
\* have succeeded, the load read the master file after the append, so that
\* once the run is over every id_norma of the partition's batch file has a
\* row in the master table.
C26_LoadReadsAfterAppend ==
    \A r \in DOMAIN run :
        (Finished(r) /\ run[r].st[Append_] = "ok" /\ run[r].st[MasterLoad] = "ok") =>
            \A k \in 1..Len(batchFile[run[r].partition].rows) :
                CountOfId(bqMaster, batchFile[run[r].partition].rows[k].id_norma) > 0

-----------------------------------------------------------------------------
(* Properties of the date fields of a record, checked under SpecFechas *)

\* C27: in a record that scrape_norma_by_id has returned, fecha_sancion and
\* fecha_boletin are each the empty string or a string that
\* convert_date_format returned; neither is a text the normalizer turned
\* down, stored as it was read.
C27_DateFieldsNormalized ==
    data.parsed =>
        /\ data.fecha_sancion.kind \in {"empty", "normalized"}
        /\ data.fecha_boletin.kind \in {"empty", "normalized"}

-----------------------------------------------------------------------------
(* Properties of the summary field of a record, checked under SpecResumen *)

\* the summary texts of the page in the order they are tried: the parent of
\* the <strong> (position 0), then the <p> elements that start with the label
SummaryCandidates ==
    (IF page.resumen_strong.present
     THEN {[at |-> 0, len |-> page.resumen_strong.text.len]} ELSE {})
    \cup {[at |-> k, len |-> page.ps[k].len] :
             k \in {j \in 1..Len(page.ps) : page.ps[j].label \in {"Resumen:", "resumen:"}}}

\* C28 as stated: a summary text of fewer than 10 characters (the label
\* stripped) is never kept, and when the page has a summary text of 10
\* characters or more, texto_resumido is not left empty.
C28_SummaryFromTenKept ==
    data.parsed =>
        /\ data.texto_resumido.kind = "text" => data.texto_resumido.len >= 10
        /\ (\E c \in SummaryCandidates : c.len >= 10) => data.texto_resumido.kind = "text"

\* C28 (amended): the threshold is strict. A summary text of 10 characters
\* or fewer is discarded and one of 11 or more is kept: texto_resumido is the
\* first summary text of the page, in the order they are tried, that is
\* longer than 10 characters, and it is empty when there is none.
C28_SummaryOverTenKept ==
    data.parsed =>
        /\ data.texto_resumido.kind = "text" =>
              /\ data.texto_resumido.len > 10
              /\ [at |-> data.texto_resumido.at, len |-> data.texto_resumido.len]
                    \in SummaryCandidates
              /\ \A c \in SummaryCandidates : c.at < data.texto_resumido.at => c.len <= 10
        /\ data.texto_resumido.kind = "empty" =>
              \A c \in SummaryCandidates : c.len <= 10

\* a page has been parsed whose first labelled paragraph has exactly 10
\* characters and was passed over, and whose second, of 11, was kept
C28_Witness ==
    /\ data.parsed
    /\ ~page.resumen_strong.present
    /\ Len(page.ps) = 2
    /\ page.ps[1] = [label |-> "Resumen:", len |-> 10]
    /\ data.texto_resumido = KeptText(2, 11)

-----------------------------------------------------------------------------
(* Termination of scrape_by_date, checked under SpecScrapeFair *)

\* C29: every execution of scrape_by_date ends, by returning its count or
\* by raising; every group handed to asyncio.gather is answered in full;
\* and when the run returns, a request that hung has cost the row of its own
\* identifier only: the file holds one row for each identifier whose page
\* answered, in search order, and the count is the number of rows.
C29_ScrapeTerminates ==
    /\ <>(pc \in {"done", "raised"})
    /\ (pc \in {"gather", "final_gather"}) ~> (inflight = {})
    /\ [](pc = "done" =>
            /\ total_scraped = Len(csvfile)
            /\ IdsOf(csvfile) = SucceededIn(all_norma_ids))

\* a run has returned in which one request hung and timed out and the two
\* other identifiers, one before it and one after it, have their rows
C29_Witness ==
    /\ pc = "done"
    /\ Len(all_norma_ids) = 3
    /\ answers[all_norma_ids[2]] = Silence
    /\ IdsOf(csvfile) = <<all_norma_ids[1], all_norma_ids[3]>>
    /\ total_scraped = 2

-----------------------------------------------------------------------------
(* Properties of the usage limit of /chat, checked under SpecChat *)

\* C30: with DEBUG off and no read of the tracker having failed, and even
\* when every increment has succeeded, whatever the order in which the
\* requests of a client identity take their steps during a day, the stored
\* count is at most USAGE_DAILY_LIMIT - 1 and the agent has been invoked at
\* most USAGE_DAILY_LIMIT - 1 times for the identity.
C30_UsageWithinLimit ==
    (~debug /\ ~failed.read /\ ~failed.inc) =>
        /\ usage <= USAGE_DAILY_LIMIT - 1
        /\ invoked <= USAGE_DAILY_LIMIT - 1

====
